---- MODULE Spec2Model ----
(***************************************************************************)
(* Trade-Opportunities-API: the LangGraph analysis workflow               *)
(*   collector -> analyzer -> critic -> (refiner -> critic)* -> formatter  *)
(* run by execute_analysis, with the nodes' fallback logic and the         *)
(* orchestrator's catch-all.                                               *)
(*                                                                         *)
(* Python values are modelled as records tagged with their type:           *)
(*   None                [type |-> "NoneType"]                             *)
(*   a short str         [type |-> "str", value |-> "..."]                 *)
(*   a long text         [type |-> "str", origin |-> "...", len |-> n]     *)
(*   a dict              [type |-> "dict", <key> |-> <value>, ...]         *)
(*   a list              [type |-> "list", items |-> <<...>>]              *)
(* The workflow state (a TypedDict) is a record whose DOMAIN is the set of *)
(* keys present, so that state.get(key, default) is modelled as written.   *)
(***************************************************************************)
EXTENDS Integers, Sequences, FiniteSets, TLC

(***************************************************************************)
(* Bounds of the model.                                                    *)
(***************************************************************************)
\* settings.max_refinement_iterations ranges over -1..MaxIterationsBound
MaxIterationsBound == 2
\* the LLM's texts have lengths MIN_REPORT_LENGTH - LenSpread .. MIN_REPORT_LENGTH + LenSpread
LenSpread == 1
\* the long sector name is "agro" repeated LongSectorRepeats times
LongSectorRepeats == 34
\* the clock is seen to advance at most MaxAdvances times
MaxAdvances == 2
\* the second identity is admitted at most MaxOtherRequests times
MaxOtherRequests == 1
\* at most MaxKeyCalls keys are issued or revoked
MaxKeyCalls == 3

(***************************************************************************)
(* Program constants.                                                      *)
(***************************************************************************)
MIN_REPORT_LENGTH == 500
HIGH_QUALITY_RESULTS == 5
MODERATE_QUALITY_RESULTS == 3
TOP_RESULTS_LIMIT == 8
\* the number of search queries of one collection, and max_results of each
QUERY_COUNT == 3
MAX_RESULTS_PER_QUERY == 3
\* length of _generate_fallback_report's template without the substitutions
FALLBACK_REPORT_TEMPLATE_LEN == 224
\* length of _generate_error_report's template without the substitutions
ERROR_REPORT_TEMPLATE_LEN == 348

(***************************************************************************)
(* Python values.                                                          *)
(***************************************************************************)
None == [type |-> "NoneType"]

PyStr(s) == [type |-> "str", value |-> s]

\* a text too long to spell out: where it came from and how long it is
Text(origin, n) == [type |-> "str", origin |-> origin, len |-> n]

PyList(items) == [type |-> "list", items |-> items]

\* F(x) with x evaluated once, before F is applied (a LET definition is
\* evaluated again at each of its uses)
With(x, F(_)) == CHOOSE r \in {F(v) : v \in {x}} : TRUE

\* len(v) of a str
PyLen(v) == IF "len" \in DOMAIN v THEN v.len ELSE Len(v.value)

\* bool(v) of None or a str
Truthy(v) == IF v.type = "str" THEN PyLen(v) > 0 ELSE FALSE

\* d.get(k, default), for a dict and for the workflow state
Get(d, k, default) == IF k \in DOMAIN d THEN d[k] ELSE default

\* str(v) of None or a short str
StrOf(v) == IF v.type = "str" /\ "value" \in DOMAIN v THEN v.value ELSE "None"

UpperChar(c) ==
    CASE c = "a" -> "A" [] c = "b" -> "B" [] c = "c" -> "C" [] c = "d" -> "D"
      [] c = "e" -> "E" [] c = "f" -> "F" [] c = "g" -> "G" [] c = "h" -> "H"
      [] c = "i" -> "I" [] c = "j" -> "J" [] c = "k" -> "K" [] c = "l" -> "L"
      [] c = "m" -> "M" [] c = "n" -> "N" [] c = "o" -> "O" [] c = "p" -> "P"
      [] c = "q" -> "Q" [] c = "r" -> "R" [] c = "s" -> "S" [] c = "t" -> "T"
      [] c = "u" -> "U" [] c = "v" -> "V" [] c = "w" -> "W" [] c = "x" -> "X"
      [] c = "y" -> "Y" [] c = "z" -> "Z" [] OTHER -> c

\* s[lo-1:hi].upper(), character by character (halving keeps the evaluation
\* shallow on the longer texts)
RECURSIVE UpperRange(_, _, _)
UpperRange(s, lo, hi) ==
    IF lo > hi THEN ""
    ELSE IF lo = hi THEN With(SubSeq(s, lo, lo), LAMBDA c : UpperChar(c))
    ELSE With((lo + hi) \div 2, LAMBDA mid :
             UpperRange(s, lo, mid) \o UpperRange(s, mid + 1, hi))

\* str.upper()
Upper(s) == With(s, LAMBDA t : UpperRange(t, 1, Len(t)))

\* sub in s
Contains(s, sub) ==
    \E t \in {s} :
        \E i \in 1..(Len(t) - Len(sub) + 1) : SubSeq(t, i, i + Len(sub) - 1) = sub

StartsWith(s, p) ==
    \E t \in {s} : Len(t) >= Len(p) /\ SubSeq(t, 1, Len(p)) = p

EndsWith(s, p) ==
    \E t \in {s} : Len(t) >= Len(p) /\ SubSeq(t, Len(t) - Len(p) + 1, Len(t)) = p

IsSpace(c) == c \in {" ", "\n", "\t"}

\* the position of the first character at or after i that is not white space
RECURSIVE FirstNonSpace(_, _)
FirstNonSpace(s, i) ==
    IF i <= Len(s) /\ IsSpace(SubSeq(s, i, i))
    THEN With(i + 1, LAMBDA j : FirstNonSpace(s, j))
    ELSE i

\* the position of the last character at or before j that is not white space
RECURSIVE LastNonSpace(_, _)
LastNonSpace(s, j) ==
    IF j >= 1 /\ IsSpace(SubSeq(s, j, j))
    THEN With(j - 1, LAMBDA i : LastNonSpace(s, i))
    ELSE j

\* str.strip()
Strip(s) ==
    With(s, LAMBDA t : SubSeq(t, FirstNonSpace(t, 1), LastNonSpace(t, Len(t))))

RECURSIVE Repeat(_, _)
Repeat(s, n) == IF n = 0 THEN "" ELSE s \o Repeat(s, n - 1)

(***************************************************************************)
(* The LLM backend: what one chat.completions.create call does.            *)
(***************************************************************************)
LLMRaise == [kind |-> "raise"]

\* no choices, or a message whose content is None or ""
LLMNoContent == [kind |-> "no_content"]

LLMContent(c) == [kind |-> "content", content |-> c]

\* no LLM call was made
NoCall == [kind |-> "no_call"]

\* no call brought content: it was not made, it raised, or it came back empty
LLMFailed(resp) == resp.kind # "content"

ReportLens == (MIN_REPORT_LENGTH - LenSpread)..(MIN_REPORT_LENGTH + LenSpread)

\* the free-text answers of the model to the generate call
GenerateResponses ==
    {LLMRaise, LLMNoContent} \cup {LLMContent(Text("generated", n)) : n \in ReportLens}

\* the free-text answers of the model to the refine call
RefineResponses ==
    {LLMRaise, LLMNoContent} \cup {LLMContent(Text("refined", n)) : n \in ReportLens}

JSON_GARBAGE == "The report looks fine to me."
JSON_BLANK == " "
JSON_LIST == "[\"FAIL\"]"
JSON_EMPTY_OBJECT == "{}"
JSON_PASS == "{\"decision\": \"PASS\", \"reason\": \"meets criteria\"}"
JSON_FAIL == "{\"decision\": \"FAIL\", \"reason\": \"needs more data\"}"
JSON_FAIL_LOWER == "{\"decision\": \"fail\", \"reason\": \"needs more data\"}"
JSON_MAYBE == "{\"decision\": \"MAYBE\", \"reason\": \"unsure\"}"
JSON_NULL_DECISION == "{\"decision\": null, \"reason\": \"unsure\"}"
JSON_FAIL_NULL_REASON == "{\"decision\": \"FAIL\", \"reason\": null}"
JSON_SUMMARY ==
    "{\"market_size\": \"USD 10B\", \"growth_cagr\": \"12%\", \"top_recommendations\": [\"a\"]}"
JSON_SUMMARY_NULLS ==
    "{\"market_size\": null, \"growth_cagr\": null, \"top_recommendations\": null}"
\* the markdown code fence, three backquotes (a backquote cannot be written in a
\* TLA+ string: "~" stands for it)
CODE_FENCE == "~~~"
JSON_SUMMARY_FENCED == CODE_FENCE \o "json\n" \o JSON_SUMMARY \o "\n" \o CODE_FENCE

\* json.loads on the texts above: [ok |-> FALSE] is a JSONDecodeError
\* (JsonLoadsText is its table, JsonLoads the function)
JsonLoadsText(c) ==
    CASE c = JSON_LIST -> [ok |-> TRUE, value |-> PyList(<<PyStr("FAIL")>>)]
      [] c = JSON_EMPTY_OBJECT -> [ok |-> TRUE, value |-> [type |-> "dict"]]
      [] c = JSON_PASS ->
            [ok |-> TRUE, value |-> [type |-> "dict", decision |-> PyStr("PASS"),
                                     reason |-> PyStr("meets criteria")]]
      [] c = JSON_FAIL ->
            [ok |-> TRUE, value |-> [type |-> "dict", decision |-> PyStr("FAIL"),
                                     reason |-> PyStr("needs more data")]]
      [] c = JSON_FAIL_LOWER ->
            [ok |-> TRUE, value |-> [type |-> "dict", decision |-> PyStr("fail"),
                                     reason |-> PyStr("needs more data")]]
      [] c = JSON_MAYBE ->
            [ok |-> TRUE, value |-> [type |-> "dict", decision |-> PyStr("MAYBE"),
                                     reason |-> PyStr("unsure")]]
      [] c = JSON_NULL_DECISION ->
            [ok |-> TRUE, value |-> [type |-> "dict", decision |-> None,
                                     reason |-> PyStr("unsure")]]
      [] c = JSON_FAIL_NULL_REASON ->
            [ok |-> TRUE, value |-> [type |-> "dict", decision |-> PyStr("FAIL"),
                                     reason |-> None]]
      [] c = JSON_SUMMARY ->
            [ok |-> TRUE, value |-> [type |-> "dict", market_size |-> PyStr("USD 10B"),
                                     growth_cagr |-> PyStr("12%"),
                                     top_recommendations |-> PyList(<<PyStr("a")>>)]]
      [] c = JSON_SUMMARY_NULLS ->
            [ok |-> TRUE, value |-> [type |-> "dict", market_size |-> None,
                                     growth_cagr |-> None,
                                     top_recommendations |-> None]]
      [] OTHER -> [ok |-> FALSE]

JsonLoads(text) == With(text, LAMBDA c : JsonLoadsText(c))

\* the answers of the model to the critique call (response_format json_object)
CritiqueResponses ==
    {LLMRaise, LLMNoContent} \cup
    {LLMContent(PyStr(c)) : c \in {JSON_GARBAGE, JSON_BLANK, JSON_LIST, JSON_EMPTY_OBJECT,
                                   JSON_PASS, JSON_FAIL, JSON_FAIL_LOWER, JSON_MAYBE,
                                   JSON_NULL_DECISION, JSON_FAIL_NULL_REASON}}

\* the answers of the model to the format call
FormatResponses ==
    {LLMRaise, LLMNoContent} \cup
    {LLMContent(PyStr(c)) : c \in {JSON_GARBAGE, JSON_LIST, JSON_EMPTY_OBJECT, JSON_SUMMARY,
                                   JSON_SUMMARY_NULLS, JSON_SUMMARY_FENCED}}

(***************************************************************************)
(* external_tools/ai_client.py                                             *)
(***************************************************************************)
\* OpenAIClient.generate_analysis: the content, or None on an error
generate_analysis(resp) ==
    IF resp.kind = "content" /\ Truthy(resp.content) THEN resp.content ELSE None

PassDict(reason) == [type |-> "dict", decision |-> PyStr("PASS"), reason |-> PyStr(reason)]

\* critique_report as it would be if an API error were reported as a FAIL
critique_report_fail_closed(resp) ==
    IF resp.kind = "raise"
    THEN [type |-> "dict", decision |-> PyStr("FAIL"), reason |-> PyStr("API error")]
    ELSE IF resp.kind = "content" /\ Truthy(resp.content)
    THEN With(Strip(resp.content.value), LAMBDA content :
         With(JsonLoads(content), LAMBDA parsed :
             IF parsed.ok
             THEN parsed.value
             ELSE [type |-> "dict", decision |-> PyStr("FAIL"),
                   reason |-> PyStr("JSON parse error"),
                   raw_output |-> PyStr(content)]))
    ELSE [type |-> "dict", decision |-> PyStr("FAIL"), reason |-> PyStr("Empty response")]

\* OpenAIClient.critique_report: the parsed JSON, or a PASS dictionary
critique_report(resp) ==
    IF resp.kind = "raise"
    THEN PassDict("API error - defaulting to PASS to prevent blocking.")
    ELSE IF resp.kind = "content" /\ Truthy(resp.content)
    THEN With(Strip(resp.content.value), LAMBDA content :
         With(JsonLoads(content), LAMBDA parsed :
             IF parsed.ok
             THEN parsed.value
             ELSE [type |-> "dict", decision |-> PyStr("PASS"),
                   reason |-> PyStr("JSON parse error - defaulting to PASS."),
                   raw_output |-> PyStr(content)]))
    ELSE PassDict("Empty response from critique model.")

\* OpenAIClient.refine_report: the content, or the original report
refine_report(resp, original_report) ==
    IF resp.kind = "content" /\ Truthy(resp.content) THEN resp.content ELSE original_report

NullSummary ==
    [type |-> "dict", market_size |-> None, growth_cagr |-> None,
     top_recommendations |-> PyList(<<>>)]

\* the removal of a markdown code fence in format_report
StripCodeFence(content) ==
    With(IF StartsWith(content, CODE_FENCE \o "json")
         THEN SubSeq(content, 8, Len(content)) ELSE content, LAMBDA c1 :
    With(IF StartsWith(c1, CODE_FENCE) THEN SubSeq(c1, 4, Len(c1)) ELSE c1, LAMBDA c2 :
    With(IF EndsWith(c2, CODE_FENCE) THEN SubSeq(c2, 1, Len(c2) - 3) ELSE c2, LAMBDA c3 :
         Strip(c3))))

\* OpenAIClient.format_report: the parsed JSON, or the all-null summary
\* format_report as it would be if its fallbacks returned a dict that names
\* the failure instead of the all-null summary
format_report_names_failure(resp) ==
    IF resp.kind = "content" /\ Truthy(resp.content)
    THEN With(JsonLoads(StripCodeFence(Strip(resp.content.value))), LAMBDA parsed :
             IF parsed.ok THEN parsed.value
             ELSE [type |-> "dict", error |-> PyStr("Format error")])
    ELSE [type |-> "dict", error |-> PyStr("Format error")]

format_report(resp) ==
    IF resp.kind = "content" /\ Truthy(resp.content)
    THEN With(JsonLoads(StripCodeFence(Strip(resp.content.value))), LAMBDA parsed :
             IF parsed.ok THEN parsed.value ELSE NullSummary)
    ELSE NullSummary

(***************************************************************************)
(* external_tools/data_collector.py: what collect_sector_data returns when *)
(* its queries brought m distinct results in all.                          *)
(***************************************************************************)
Min(a, b) == IF a <= b THEN a ELSE b

collect_sector_data(sector, country, m) ==
    LET n == Min(m, TOP_RESULTS_LIMIT)
    IN  [sector |-> sector,
         country |-> country,
         search_results |-> PyList([i \in 1..n |-> i]),
         raw_data |-> IF n > 0
                      THEN [type |-> "str", origin |-> "articles", articles |-> n]
                      ELSE [type |-> "str", origin |-> "fallback_context"],
         total_results |-> n,
         data_quality |-> IF n >= HIGH_QUALITY_RESULTS THEN "high"
                          ELSE IF n >= MODERATE_QUALITY_RESULTS THEN "moderate"
                          ELSE "low",
         fallback_used |-> (n = 0)]

\* what the call of collect_sector_data does: it returns, or it raises
CollectorOutcomes ==
    {[kind |-> "data", results |-> m] : m \in 0..(QUERY_COUNT * MAX_RESULTS_PER_QUERY)}
    \cup {[kind |-> "raise", message |-> "search backend unavailable"]}

(***************************************************************************)
(* external_tools/data_collector.py: the text functions of the collector.  *)
(***************************************************************************)
LowerChar(c) ==
    CASE c = "A" -> "a" [] c = "B" -> "b" [] c = "C" -> "c" [] c = "D" -> "d"
      [] c = "E" -> "e" [] c = "F" -> "f" [] c = "G" -> "g" [] c = "H" -> "h"
      [] c = "I" -> "i" [] c = "J" -> "j" [] c = "K" -> "k" [] c = "L" -> "l"
      [] c = "M" -> "m" [] c = "N" -> "n" [] c = "O" -> "o" [] c = "P" -> "p"
      [] c = "Q" -> "q" [] c = "R" -> "r" [] c = "S" -> "s" [] c = "T" -> "t"
      [] c = "U" -> "u" [] c = "V" -> "v" [] c = "W" -> "w" [] c = "X" -> "x"
      [] c = "Y" -> "y" [] c = "Z" -> "z" [] OTHER -> c

\* s[lo-1:hi].lower(), character by character
RECURSIVE LowerRange(_, _, _)
LowerRange(s, lo, hi) ==
    IF lo > hi THEN ""
    ELSE IF lo = hi THEN With(SubSeq(s, lo, lo), LAMBDA c : LowerChar(c))
    ELSE With((lo + hi) \div 2, LAMBDA mid :
             LowerRange(s, lo, mid) \o LowerRange(s, mid + 1, hi))

\* str.lower()
Lower(s) == With(s, LAMBDA t : LowerRange(t, 1, Len(t)))

\* the characters the pattern \w matches (of those the model's texts use)
WordChars ==
    {"a", "b", "c", "d", "e", "f", "g", "h", "i", "j", "k", "l", "m", "n", "o", "p",
     "q", "r", "s", "t", "u", "v", "w", "x", "y", "z",
     "A", "B", "C", "D", "E", "F", "G", "H", "I", "J", "K", "L", "M", "N", "O", "P",
     "Q", "R", "S", "T", "U", "V", "W", "X", "Y", "Z",
     "0", "1", "2", "3", "4", "5", "6", "7", "8", "9", "_"}

\* re.sub(r'\W+', '', s[lo-1:hi])
RECURSIVE WordCharsOfRange(_, _, _)
WordCharsOfRange(s, lo, hi) ==
    IF lo > hi THEN ""
    ELSE IF lo = hi
    THEN With(SubSeq(s, lo, lo), LAMBDA c : IF c \in WordChars THEN c ELSE "")
    ELSE With((lo + hi) \div 2, LAMBDA mid :
             WordCharsOfRange(s, lo, mid) \o WordCharsOfRange(s, mid + 1, hi))

\* re.sub(r'\W+', '', s)
WordCharsOf(s) == With(s, LAMBDA t : WordCharsOfRange(t, 1, Len(t)))

\* the least element of a non-empty set of numbers
Least(S) == CHOOSE x \in S : \A y \in S : x <= y

\* re.sub(r'\s+', ' ', s[i-1:]): each run of white space becomes one space
RECURSIVE CollapseSpaceFrom(_, _)
CollapseSpaceFrom(s, i) ==
    \* the white space at or after i
    With({j \in i..Len(s) : IsSpace(SubSeq(s, j, j))}, LAMBDA spaces :
        IF spaces = {} THEN SubSeq(s, i, Len(s))
        ELSE With(Least(spaces), LAMBDA j :
                 SubSeq(s, i, j - 1) \o " " \o CollapseSpaceFrom(s, FirstNonSpace(s, j))))

\* s, from position i, begins with the literal lit (s is already lower case)
LiteralAt(s, i, lit) ==
    /\ i + Len(lit) - 1 <= Len(s)
    /\ SubSeq(s, i, i + Len(lit) - 1) = lit

\* the web noise phrases of _clean_text's pattern that are plain literals
NOISE_LITERALS ==
    <<"cookie policy", "terms of service", "privacy policy", "subscribe now",
      "share this article", "advertisement">>

\* the position where a match of _clean_text's noise pattern that starts at i
\* ends, 0 when none starts there; low is the text in lower case (IGNORECASE)
NoiseMatchEnd(low, i) ==
    IF \E k \in 1..Len(NOISE_LITERALS) : LiteralAt(low, i, NOISE_LITERALS[k])
    THEN i - 1 + Len(NOISE_LITERALS[CHOOSE k \in 1..Len(NOISE_LITERALS) :
                                        LiteralAt(low, i, NOISE_LITERALS[k])])
    \* sign up for.*newsletter, the .* greedy
    ELSE IF /\ LiteralAt(low, i, "sign up for")
            /\ \E j \in (i + 11)..Len(low) : LiteralAt(low, j, "newsletter")
    THEN 9 + (CHOOSE j \in (i + 11)..Len(low) :
                 /\ LiteralAt(low, j, "newsletter")
                 /\ \A k \in (j + 1)..Len(low) : ~LiteralAt(low, k, "newsletter"))
    \* related articles?:?
    ELSE IF LiteralAt(low, i, "related article")
    THEN With(IF LiteralAt(low, i + 15, "s") THEN i + 15 ELSE i + 14, LAMBDA e1 :
             IF LiteralAt(low, e1 + 1, ":") THEN e1 + 1 ELSE e1)
    \* read more:?
    ELSE IF LiteralAt(low, i, "read more")
    THEN IF LiteralAt(low, i + 9, ":") THEN i + 9 ELSE i + 8
    \* \[.*?\], the .*? lazy
    ELSE IF LiteralAt(low, i, "[") /\ \E j \in (i + 1)..Len(low) : LiteralAt(low, j, "]")
    THEN Least({j \in (i + 1)..Len(low) : LiteralAt(low, j, "]")})
    ELSE 0

\* re.sub(noise, '', s[i-1:], flags=re.IGNORECASE)
RECURSIVE RemoveNoiseFrom(_, _, _)
RemoveNoiseFrom(s, low, i) ==
    With({j \in i..Len(s) : NoiseMatchEnd(low, j) > 0}, LAMBDA starts :
        IF starts = {} THEN SubSeq(s, i, Len(s))
        ELSE With(Least(starts), LAMBDA j :
                 SubSeq(s, i, j - 1) \o RemoveNoiseFrom(s, low, NoiseMatchEnd(low, j) + 1)))

\* DataCollector._clean_text
_clean_text(text) ==
    IF text = "" THEN ""
    ELSE With(CollapseSpaceFrom(text, 1), LAMBDA spaced :
         With(Lower(spaced), LAMBDA low :
             Strip(RemoveNoiseFrom(spaced, low, 1))))

\* _generate_content_hash keeps this many characters
CONTENT_HASH_LENGTH == 100

\* DataCollector._generate_content_hash
_generate_content_hash(text) ==
    With(WordCharsOf(Lower(text)), LAMBDA h :
        SubSeq(h, 1, Min(Len(h), CONTENT_HASH_LENGTH)))

\* substring tests of _assess_source_priority
HIGH_QUALITY_SOURCES ==
    {"economic times", "business standard", "financial express", "livemint",
     "moneycontrol", "reuters", "bloomberg", "ministry", "government", "rbi",
     "sebi", "nse", "bse"}

TITLE_KEY_TERMS ==
    {"trade", "export", "import", "investment", "growth", "policy", "opportunity",
     "market"}

RECENCY_INDICATORS == {"2025", "2024", "latest", "current", "recent"}

BASE_PRIORITY == 50
QUALITY_SOURCE_BONUS == 30
KEY_TERM_BONUS == 5
RECENCY_BONUS == 3

\* DataCollector._assess_source_priority
_assess_source_priority(source, title, body) ==
    With(Lower(source), LAMBDA source_lower :
    With(Lower(title), LAMBDA title_lower :
    With(Lower(title \o " " \o body), LAMBDA both_lower :
        BASE_PRIORITY
        + (IF \E q \in HIGH_QUALITY_SOURCES : Contains(source_lower, q)
           THEN QUALITY_SOURCE_BONUS ELSE 0)
        + (IF \E term \in TITLE_KEY_TERMS : Contains(title_lower, term)
           THEN KEY_TERM_BONUS ELSE 0)
        + (IF \E ind \in RECENCY_INDICATORS : Contains(both_lower, ind)
           THEN RECENCY_BONUS ELSE 0))))

\* DataCollector._classify_query
_classify_query(query_index) ==
    CASE query_index = 1 -> "Trade & Growth"
      [] query_index = 2 -> "Policy & Investment"
      [] query_index = 3 -> "Market Data"
      [] OTHER -> "General"

\* the snippet of a result keeps this many characters of the cleaned body
SNIPPET_LENGTH == 300

\* the inner loop's body without its duplicate test
ProcessResult_no_dedup(acc, result, idx_) ==
    With(_clean_text(Get(result, "body", "")), LAMBDA cleaned_body :
        [all_results |->
            Append(acc.all_results,
                   [title |-> Get(result, "title", "No Title"),
                    snippet |-> SubSeq(cleaned_body, 1,
                                       Min(Len(cleaned_body), SNIPPET_LENGTH)),
                    url |-> Get(result, "href", ""),
                    source |-> Get(result, "source", "Unknown"),
                    priority |-> _assess_source_priority(
                                     Get(result, "source", "Unknown"),
                                     Get(result, "title", "No Title"),
                                     Get(result, "body", "")),
                    query_type |-> _classify_query(idx_)]),
         seen_content |-> acc.seen_content])

\* the body of collect_sector_data's inner loop for one search result; acc
\* holds all_results and seen_content
ProcessResult(acc, result, idx_) ==
    With(_clean_text(Get(result, "body", "")), LAMBDA cleaned_body :
    With(_generate_content_hash(cleaned_body), LAMBDA content_hash :
        IF content_hash \in acc.seen_content
        THEN acc
        ELSE [all_results |->
                 Append(acc.all_results,
                        [title |-> Get(result, "title", "No Title"),
                         snippet |-> SubSeq(cleaned_body, 1,
                                            Min(Len(cleaned_body), SNIPPET_LENGTH)),
                         url |-> Get(result, "href", ""),
                         source |-> Get(result, "source", "Unknown"),
                         priority |-> _assess_source_priority(
                                          Get(result, "source", "Unknown"),
                                          Get(result, "title", "No Title"),
                                          Get(result, "body", "")),
                         query_type |-> _classify_query(idx_)]),
              seen_content |-> acc.seen_content \cup {content_hash}]))

\* the inner loop over the first n results of one query
RECURSIVE ProcessResults(_, _, _, _)
ProcessResults(acc, results, n, idx_) ==
    IF n = 0 THEN acc
    ELSE With(ProcessResults(acc, results, n - 1, idx_), LAMBDA before :
             ProcessResult(before, results[n], idx_))

\* list.sort(key=priority, reverse=True) of the first n entries: stable, an
\* entry goes behind those of the same priority that came before it
RECURSIVE SortByPriority(_, _)
SortByPriority(entries, n) ==
    IF n = 0 THEN <<>>
    ELSE With(SortByPriority(entries, n - 1), LAMBDA sorted :
         With(Cardinality({i \in 1..Len(sorted) :
                              sorted[i].priority >= entries[n].priority}), LAMBDA k :
             SubSeq(sorted, 1, k) \o <<entries[n]>> \o SubSeq(sorted, k + 1, Len(sorted))))

\* DataCollector._format_article, as the fields it formats
_format_article(article_num, title, source, content, url) ==
    [article_num |-> article_num, title |-> title, source |-> source,
     content |-> content, url |-> url]

\* collect_sector_data after its loop: the sort, the cut to the top results,
\* the quality tier, the context for the LLM and the returned dict
\* the cut without the sort
TopResults_unsorted(all) == SubSeq(all, 1, Min(Len(all), TOP_RESULTS_LIMIT))

TopResults(all) ==
    With(SortByPriority(all, Len(all)), LAMBDA sorted :
        SubSeq(sorted, 1, Min(Len(sorted), TOP_RESULTS_LIMIT)))

CollectedData(sector, country, all) ==
    With(TopResults(all), LAMBDA top_results :
        [collect_sector_data(sector, country, Len(all)) EXCEPT
            !.search_results = PyList(top_results),
            !.raw_data =
                IF Len(top_results) > 0
                THEN [type |-> "str", origin |-> "articles",
                      articles |-> [i \in 1..Len(top_results) |->
                          _format_article(i, top_results[i].title, top_results[i].source,
                                          top_results[i].snippet, top_results[i].url)]]
                ELSE [type |-> "str", origin |-> "fallback_context"]])

(***************************************************************************)
(* external_tools/data_collector.py: the search with its fallback and its  *)
(* retries.  An attempt is a record of the query, the backend tried and    *)
(* what came of it, "returned" or "raised".                                *)
(***************************************************************************)
\* stop_after_attempt of the retry decorator of _search_duckduckgo
STOP_AFTER_ATTEMPT == 2

\* how many of the attempts went to a backend
AttemptsOn(attempts, backend) ==
    Cardinality({n \in DOMAIN attempts : attempts[n].backend = backend})

\* _search_with_retry as it would be if the retry decorator were on the
\* whole search, so that a retry starts again with GNews
NextBackend_retries_gnews(gnews_configured, attempts) ==
    IF gnews_configured THEN "gnews" ELSE "duckduckgo"

\* _search_with_retry: the backend of the next attempt of a query, given the
\* attempts made on it so far, all of which raised
NextBackend(gnews_configured, attempts) ==
    IF gnews_configured /\ attempts = <<>> THEN "gnews" ELSE "duckduckgo"

\* the retry decorator with reraise=True: after these attempts, the last of
\* which raised, no attempt is left and the exception leaves the search
Exhausted(attempts) == AttemptsOn(attempts, "duckduckgo") >= STOP_AFTER_ATTEMPT

\* the loop over the queries as it would be if a failed query ended it
AfterFailedQuery_breaks(i) == QUERY_COUNT + 1

\* the except branch of the loop over the queries: continue with the next one
AfterFailedQuery(i) == i + 1

\* _search_gnews builds every result with a 'source'; what DuckDuckGo returns
\* is passed on as it is
CanReturn(backend, results) ==
    backend = "gnews" => \A n \in DOMAIN results : "source" \in DOMAIN results[n]

(***************************************************************************)
(* app/services/in_memory_store.py: RateLimiter.  Time is counted in ticks *)
(* of the clock datetime.utcnow() reads.                                   *)
(***************************************************************************)
TicksPerSecond == 2

SECONDS_PER_MINUTE == 60
SECONDS_PER_HOUR == 3600

\* timedelta(minutes=1) and timedelta(hours=1)
MINUTE == SECONDS_PER_MINUTE * TicksPerSecond
HOUR == SECONDS_PER_HOUR * TicksPerSecond

\* RateLimiter(): the defaults of __init__
DEFAULT_REQUESTS_PER_MINUTE == 5
DEFAULT_REQUESTS_PER_HOUR == 30

DefaultLimits ==
    [requests_per_minute |-> DEFAULT_REQUESTS_PER_MINUTE,
     requests_per_hour |-> DEFAULT_REQUESTS_PER_HOUR]

\* int(x) of the quotient a / b, b positive: truncation toward zero
IntOf(a, b) == IF a >= 0 THEN a \div b ELSE -((-a) \div b)

\* while q and q[0] < cutoff: q.popleft()
RECURSIVE PopOlder(_, _)
PopOlder(q, cutoff) ==
    IF q # <<>> /\ Head(q) < cutoff
    THEN With(Tail(q), LAMBDA rest : PopOlder(rest, cutoff))
    ELSE q

\* _clean_old_entries as it would be with the two cutoffs exchanged
_clean_old_entries_swapped(mr, hr, user_id, now_) ==
    [minute_requests |-> [mr EXCEPT ![user_id] = PopOlder(mr[user_id], now_ - HOUR)],
     hour_requests |-> [hr EXCEPT ![user_id] = PopOlder(hr[user_id], now_ - MINUTE)]]

\* _clean_old_entries as it would be if it cleaned the deques of every user
_clean_old_entries_of_all(mr, hr, user_id, now_) ==
    [minute_requests |-> [u \in DOMAIN mr |-> PopOlder(mr[u], now_ - MINUTE)],
     hour_requests |-> [u \in DOMAIN hr |-> PopOlder(hr[u], now_ - HOUR)]]

\* RateLimiter._clean_old_entries, on the two dicts of deques
_clean_old_entries(mr, hr, user_id, now_) ==
    [minute_requests |-> [mr EXCEPT ![user_id] = PopOlder(mr[user_id], now_ - MINUTE)],
     hour_requests |-> [hr EXCEPT ![user_id] = PopOlder(hr[user_id], now_ - HOUR)]]

\* check_rate_limit as it would be if the wait were taken from the newest
\* timestamp of the window
check_rate_limit_from_newest(lim, mr, hr, user_id, now_) ==
    With(_clean_old_entries(mr, hr, user_id, now_), LAMBDA c :
        IF Len(c.minute_requests[user_id]) >= lim.requests_per_minute
        THEN [minute_requests |-> c.minute_requests, hour_requests |-> c.hour_requests,
              allowed |-> FALSE,
              message |-> [text |-> "Rate limit exceeded. Try again in {} seconds.",
                           amount |-> IntOf(MINUTE - (now_ - c.minute_requests[user_id][
                                                Len(c.minute_requests[user_id])]),
                                            TicksPerSecond)]]
        ELSE IF Len(c.hour_requests[user_id]) >= lim.requests_per_hour
        THEN [minute_requests |-> c.minute_requests, hour_requests |-> c.hour_requests,
              allowed |-> FALSE,
              message |-> [text |-> "Hourly rate limit exceeded. Try again in {} minutes.",
                           amount |-> IntOf(HOUR - (now_ - c.hour_requests[user_id][
                                                Len(c.hour_requests[user_id])]),
                                            TicksPerSecond * SECONDS_PER_MINUTE)]]
        ELSE [minute_requests |->
                  [c.minute_requests EXCEPT ![user_id] = Append(@, now_)],
              hour_requests |->
                  [c.hour_requests EXCEPT ![user_id] = Append(@, now_)],
              allowed |-> TRUE,
              message |-> [text |-> "OK"]])

\* check_rate_limit as it would be if the windows were tested with > for >=
check_rate_limit_off_by_one(lim, mr, hr, user_id, now_) ==
    With(_clean_old_entries(mr, hr, user_id, now_), LAMBDA c :
        IF Len(c.minute_requests[user_id]) > lim.requests_per_minute
        THEN [minute_requests |-> c.minute_requests, hour_requests |-> c.hour_requests,
              allowed |-> FALSE,
              message |-> [text |-> "Rate limit exceeded. Try again in {} seconds.",
                           amount |-> IntOf(MINUTE - (now_ - Head(c.minute_requests[user_id])),
                                            TicksPerSecond)]]
        ELSE IF Len(c.hour_requests[user_id]) > lim.requests_per_hour
        THEN [minute_requests |-> c.minute_requests, hour_requests |-> c.hour_requests,
              allowed |-> FALSE,
              message |-> [text |-> "Hourly rate limit exceeded. Try again in {} minutes.",
                           amount |-> IntOf(HOUR - (now_ - Head(c.hour_requests[user_id])),
                                            TicksPerSecond * SECONDS_PER_MINUTE)]]
        ELSE [minute_requests |->
                  [c.minute_requests EXCEPT ![user_id] = Append(@, now_)],
              hour_requests |->
                  [c.hour_requests EXCEPT ![user_id] = Append(@, now_)],
              allowed |-> TRUE,
              message |-> [text |-> "OK"]])

\* check_rate_limit as it would be if a rejected attempt were recorded in the
\* minute window too
check_rate_limit_records_rejections(lim, mr, hr, user_id, now_) ==
    With(_clean_old_entries(mr, hr, user_id, now_), LAMBDA c :
        IF Len(c.minute_requests[user_id]) >= lim.requests_per_minute
        THEN [minute_requests |->
                  [c.minute_requests EXCEPT ![user_id] = Append(@, now_)],
              hour_requests |-> c.hour_requests,
              allowed |-> FALSE,
              message |-> [text |-> "Rate limit exceeded. Try again in {} seconds.",
                           amount |-> IntOf(MINUTE - (now_ - Head(c.minute_requests[user_id])),
                                            TicksPerSecond)]]
        ELSE IF Len(c.hour_requests[user_id]) >= lim.requests_per_hour
        THEN [minute_requests |->
                  [c.minute_requests EXCEPT ![user_id] = Append(@, now_)],
              hour_requests |-> c.hour_requests,
              allowed |-> FALSE,
              message |-> [text |-> "Hourly rate limit exceeded. Try again in {} minutes.",
                           amount |-> IntOf(HOUR - (now_ - Head(c.hour_requests[user_id])),
                                            TicksPerSecond * SECONDS_PER_MINUTE)]]
        ELSE [minute_requests |->
                  [c.minute_requests EXCEPT ![user_id] = Append(@, now_)],
              hour_requests |->
                  [c.hour_requests EXCEPT ![user_id] = Append(@, now_)],
              allowed |-> TRUE,
              message |-> [text |-> "OK"]])

\* the body of RateLimiter.check_rate_limit under the lock, with the clock
\* reading now_: the dicts after the call, and the returned pair
check_rate_limit(lim, mr, hr, user_id, now_) ==
    With(_clean_old_entries(mr, hr, user_id, now_), LAMBDA c :
        IF Len(c.minute_requests[user_id]) >= lim.requests_per_minute
        THEN [minute_requests |-> c.minute_requests, hour_requests |-> c.hour_requests,
              allowed |-> FALSE,
              message |-> [text |-> "Rate limit exceeded. Try again in {} seconds.",
                           amount |-> IntOf(MINUTE - (now_ - Head(c.minute_requests[user_id])),
                                            TicksPerSecond)]]
        ELSE IF Len(c.hour_requests[user_id]) >= lim.requests_per_hour
        THEN [minute_requests |-> c.minute_requests, hour_requests |-> c.hour_requests,
              allowed |-> FALSE,
              message |-> [text |-> "Hourly rate limit exceeded. Try again in {} minutes.",
                           amount |-> IntOf(HOUR - (now_ - Head(c.hour_requests[user_id])),
                                            TicksPerSecond * SECONDS_PER_MINUTE)]]
        ELSE [minute_requests |->
                  [c.minute_requests EXCEPT ![user_id] = Append(@, now_)],
              hour_requests |->
                  [c.hour_requests EXCEPT ![user_id] = Append(@, now_)],
              allowed |-> TRUE,
              message |-> [text |-> "OK"]])

\* RateLimiter.get_remaining_requests: the dicts after the call, and the
\* returned dict
get_remaining_requests(lim, mr, hr, user_id, now_) ==
    With(_clean_old_entries(mr, hr, user_id, now_), LAMBDA c :
        [minute_requests |-> c.minute_requests, hour_requests |-> c.hour_requests,
         remaining |->
             [per_minute |-> lim.requests_per_minute - Len(c.minute_requests[user_id]),
              per_hour |-> lim.requests_per_hour - Len(c.hour_requests[user_id])]])

(***************************************************************************)
(* app/core/auth.py, app/api/v1/endpoints.py and app/models.py             *)
(***************************************************************************)
\* APIKeyStore.__init__: the demo keys
INITIAL_KEYS ==
    [k \in {"demo-key-12345", "guest-key-67890", "test-key-abcde"} |->
        CASE k = "demo-key-12345" -> "demo"
          [] k = "guest-key-67890" -> "guest"
          [] OTHER -> "test"]

\* APIKeyStore.generate_key, with the token secrets.token_urlsafe brought:
\* the store after the call, and the key returned
generate_key(store, user_id, token) ==
    With(user_id \o "-" \o token, LAMBDA api_key :
        [keys |-> (api_key :> user_id) @@ store, api_key |-> api_key])

\* revoke_key as it would be if it removed every key of the key's user
revoke_key_of_user(store, api_key) ==
    IF api_key \in DOMAIN store
    THEN [keys |-> [k \in {j \in DOMAIN store : store[j] # store[api_key]} |-> store[k]],
          revoked |-> TRUE]
    ELSE [keys |-> store, revoked |-> FALSE]

\* APIKeyStore.revoke_key: the store after the call, and the bool returned
revoke_key(store, api_key) ==
    IF api_key \in DOMAIN store
    THEN [keys |-> [k \in DOMAIN store \ {api_key} |-> store[k]], revoked |-> TRUE]
    ELSE [keys |-> store, revoked |-> FALSE]

\* the request carries no X-API-Key header
NoKey == [type |-> "NoneType"]

\* APIKeyStore.verify_key
verify_key(store, api_key) ==
    IF api_key \in DOMAIN store THEN PyStr(store[api_key]) ELSE None

\* raise HTTPException(status_code, detail)
HTTPException(status_code, detail) ==
    [raised |-> TRUE, status_code |-> status_code, detail |-> detail]

\* get_current_user as it would be if an unknown key were served as guest
get_current_user_lenient(store, api_key) ==
    IF api_key = NoKey THEN [raised |-> FALSE, username |-> "guest"]
    ELSE IF verify_key(store, api_key.value) = None
    THEN [raised |-> FALSE, username |-> "guest"]
    ELSE [raised |-> FALSE, username |-> verify_key(store, api_key.value).value]

\* get_current_user: the User, or the HTTPException it raises
get_current_user(store, api_key) ==
    IF api_key = NoKey THEN [raised |-> FALSE, username |-> "guest"]
    ELSE IF verify_key(store, api_key.value) = None
    THEN HTTPException(401, "Invalid or expired API key")
    ELSE [raised |-> FALSE, username |-> verify_key(store, api_key.value).value]

\* the fields a pydantic model declares as Optional[str], and as list[str]
IsOptionalStr(v) == v.type \in {"NoneType", "str"}
IsListOfStr(v) == v.type = "list" /\ \A i \in DOMAIN v.items : v.items[i].type = "str"

\* analyze_sector keeps the first SOURCES_LIMIT search results as sources
SOURCES_LIMIT == 10

\* analyze_sector after execute_analysis returned final_state_: the response
\* model it returns, or the HTTPException its except branch raises
AnalyzeResult(final_state_, sector) ==
    With(Get(final_state_, "markdown_report", PyStr("")), LAMBDA analysis_report :
    With(Get(final_state_, "json_summary", [type |-> "dict"]), LAMBDA json_summary :
    With(Get(final_state_, "search_results", PyList(<<>>)), LAMBDA search_results :
        IF json_summary.type # "dict"
        THEN HTTPException(500, "Failed to generate analysis: 'NoneType' object has no attribute 'get'")
        ELSE IF \/ ~IsOptionalStr(Get(json_summary, "market_size", None))
                \/ ~IsOptionalStr(Get(json_summary, "growth_cagr", None))
                \/ ~IsListOfStr(Get(json_summary, "top_recommendations", PyList(<<>>)))
        THEN HTTPException(500, "Failed to generate analysis: validation error for DataSummary")
        ELSE IF search_results.type # "list"
        THEN HTTPException(500, "Failed to generate analysis: 'NoneType' object is not subscriptable")
        ELSE IF analysis_report.type # "str"
        THEN HTTPException(500, "Failed to generate analysis: validation error for StructuredAnalysisResponse")
        ELSE [raised |-> FALSE,
              status_code |-> 200,
              body |-> [status |-> "success",
                        report_id |-> "uuid4",
                        sector |-> sector,
                        timestamp |-> Get(final_state_, "timestamp", "now_iso"),
                        data_summary |->
                            [market_size |-> Get(json_summary, "market_size", None),
                             growth_cagr |-> Get(json_summary, "growth_cagr", None),
                             top_recommendations |->
                                 Get(json_summary, "top_recommendations", PyList(<<>>))],
                        markdown_body |-> analysis_report,
                        sources |-> SubSeq(search_results.items, 1,
                                           Min(Len(search_results.items), SOURCES_LIMIT))]])))

\* download_analysis around what analyze_sector returned or raised
DownloadResult(analysis_response) ==
    IF analysis_response.raised THEN analysis_response
    ELSE [raised |-> FALSE,
          status_code |-> 200,
          media_type |-> "text/markdown",
          content |-> analysis_response.body.markdown_body]

\* analyze_sector stops at a rejection of the rate limiter
Rejects_never(r) == FALSE

\* if not allowed: raise HTTPException(429)
Rejects(r) == ~r.allowed

(***************************************************************************)
(* analysis_engine/nodes: the five nodes, as functions of the state and of *)
(* what the outside world answered.                                        *)
(***************************************************************************)
\* state[k] = v, adding the key when it is absent
Set(s, k, v) == (k :> v) @@ s

collector_node(s, outcome) ==
    IF outcome.kind = "data"
    THEN LET data == collect_sector_data(s.sector, Get(s, "country", "India"),
                                         outcome.results)
         IN  Set(Set(Set(Set(s, "raw_data", data.raw_data),
                         "search_results", data.search_results),
                     "data_quality", Get(data, "data_quality", "unknown")),
                 "fallback_used", Get(data, "fallback_used", FALSE))
    ELSE Set(Set(Set(s, "error", PyStr("Data collection failed: " \o outcome.message)),
                 "raw_data", PyStr("Data collection encountered an error.")),
             "search_results", PyList(<<>>))

_generate_fallback_report(sector, country) ==
    Text("fallback_report",
         FALLBACK_REPORT_TEMPLATE_LEN + 2 * Len(sector) + 2 * Len(country))

\* analyzer_node as it would be if the empty response were not recorded as an error
analyzer_node_no_error(s, resp) ==
    With(generate_analysis(resp), LAMBDA report :
        IF Truthy(report)
        THEN Set(s, "markdown_report", report)
        ELSE Set(s, "markdown_report",
                 _generate_fallback_report(s.sector, Get(s, "country", "India"))))

\* analyzer_node as it would be without the fallback report
analyzer_node_no_fallback(s, resp) ==
    With(generate_analysis(resp), LAMBDA report :
        IF Truthy(report)
        THEN Set(s, "markdown_report", report)
        ELSE Set(s, "error", PyStr("AI analysis returned empty response")))

\* analyzer_node as it would be if its failure branch reset the collected
\* context the way collector_node's failure branch does
analyzer_node_resets_context(s, resp) ==
    With(generate_analysis(resp), LAMBDA report :
        IF Truthy(report)
        THEN Set(s, "markdown_report", report)
        ELSE Set(Set(Set(Set(s, "error", PyStr("AI analysis returned empty response")),
                         "markdown_report",
                         _generate_fallback_report(s.sector, Get(s, "country", "India"))),
                     "raw_data", PyStr("Data collection encountered an error.")),
                 "search_results", PyList(<<>>)))

\* generate_analysis catches every error of the call and returns None, so the
\* node's own except branch has nothing to catch
analyzer_node(s, resp) ==
    With(generate_analysis(resp), LAMBDA report :
        IF Truthy(report)
        THEN Set(s, "markdown_report", report)
        ELSE Set(Set(s, "error", PyStr("AI analysis returned empty response")),
                 "markdown_report",
                 _generate_fallback_report(s.sector, Get(s, "country", "India"))))

TOO_SHORT_CRITIQUE == "FAIL: Report is too short or empty. Needs substantial content."

\* the first check as it would be if only a missing report were rejected
ReportTooShort_empty_only(s) == ~Truthy(Get(s, "markdown_report", PyStr("")))

\* the first check of critic_node: the report is missing or too short
ReportTooShort(s) ==
    LET report == Get(s, "markdown_report", PyStr(""))
    IN  ~Truthy(report) \/ PyLen(report) < MIN_REPORT_LENGTH

\* critic_node raises inside its try block: critique_dict has no .get, the
\* decision has no .upper(), or the reason of a decision other than PASS cannot
\* be sliced for the log line
CriticRaises(critique_dict) ==
    \/ critique_dict.type # "dict"
    \/ \E decision \in {Get(critique_dict, "decision", PyStr("PASS"))},
          reason \in {Get(critique_dict, "reason", PyStr("No reason provided"))} :
          \/ decision.type # "str"
          \/ Upper(decision.value) # "PASS" /\ reason.type \notin {"str", "list"}

\* critic_node as it would be without the fallback bypass
critic_node_no_bypass(s, resp) ==
    IF ReportTooShort(s)
    THEN [state |-> Set(s, "critique", PyStr(TOO_SHORT_CRITIQUE)), llm |-> NoCall]
    ELSE With(critique_report(resp), LAMBDA critique_dict :
             [state |->
                 IF CriticRaises(critique_dict)
                 THEN Set(s, "critique",
                          PassDict("Internal node error - defaulted to PASS."))
                 ELSE Set(s, "critique", critique_dict),
              llm |-> resp])

\* critic_node, given what the LLM would answer: the new state, and the answer
\* the node consumed (NoCall when it returned before the call)
\* critic_node as it would be with the fallback bypass ahead of the length check
critic_node_bypass_first(s, resp) ==
    IF Get(s, "fallback_used", FALSE)
    THEN [state |-> Set(s, "critique", PyStr("PASS")), llm |-> NoCall]
    ELSE IF ReportTooShort(s)
    THEN [state |-> Set(s, "critique", PyStr(TOO_SHORT_CRITIQUE)), llm |-> NoCall]
    ELSE With(critique_report(resp), LAMBDA critique_dict :
             [state |->
                 IF CriticRaises(critique_dict)
                 THEN Set(s, "critique",
                          PassDict("Internal node error - defaulted to PASS."))
                 ELSE Set(s, "critique", critique_dict),
              llm |-> resp])

critic_node(s, resp) ==
    IF ReportTooShort(s)
    THEN [state |-> Set(s, "critique", PyStr(TOO_SHORT_CRITIQUE)), llm |-> NoCall]
    ELSE IF Get(s, "fallback_used", FALSE)
    THEN [state |-> Set(s, "critique", PyStr("PASS")), llm |-> NoCall]
    ELSE With(critique_report(resp), LAMBDA critique_dict :
             [state |->
                 IF CriticRaises(critique_dict)
                 THEN Set(s, "critique",
                          PassDict("Internal node error - defaulted to PASS."))
                 ELSE Set(s, "critique", critique_dict),
              llm |-> resp])

\* the finally block as it would be if it counted each run twice
IncrementIterations_twice(s) == Set(s, "iterations", Get(s, "iterations", 0) + 2)

\* the increment in refiner_node's finally block
IncrementIterations(s) == Set(s, "iterations", Get(s, "iterations", 0) + 1)

\* refiner_node as it would be if it stored whatever the refine call brought
refiner_node_no_fallback(s, resp) ==
    IncrementIterations(Set(s, "markdown_report",
                            IF resp.kind = "content" /\ Truthy(resp.content)
                            THEN resp.content ELSE None))

\* refiner_node as it would be if a refined report cleared the error
refiner_node_clears_error(s, resp) ==
    With(refine_report(resp, Get(s, "markdown_report", PyStr(""))),
         LAMBDA refined_report :
             IncrementIterations(IF Truthy(refined_report)
                                 THEN Set(Set(s, "markdown_report", refined_report),
                                          "error", None)
                                 ELSE s))

refiner_node(s, resp) ==
    With(refine_report(resp, Get(s, "markdown_report", PyStr(""))),
         LAMBDA refined_report :
             IncrementIterations(IF Truthy(refined_report)
                                 THEN Set(s, "markdown_report", refined_report)
                                 ELSE s))

\* len(v) raises a TypeError
HasNoLen(v) == v.type \notin {"list", "str", "dict"}

formatter_node(s, resp) ==
    With(format_report(resp), LAMBDA json_summary :
        IF \/ json_summary.type # "dict"
           \/ HasNoLen(Get(json_summary, "top_recommendations", PyList(<<>>)))
        THEN Set(s, "json_summary", NullSummary)
        ELSE Set(s, "json_summary", json_summary))

(***************************************************************************)
(* analysis_engine/analysis_graph.py                                       *)
(***************************************************************************)
\* the local "passed" of should_continue_refinement: what the edge makes of the
\* stored critique, a dict or a legacy string
passed(s) ==
    \E critique \in {Get(s, "critique", [type |-> "dict", decision |-> PyStr("PASS")])} :
        IF critique.type = "dict"
        THEN \E decision \in {Get(critique, "decision", PyStr("PASS"))} :
                 decision.type = "str" /\ Upper(decision.value) = "PASS"
        ELSE Contains(Upper(StrOf(critique)), "PASS")

\* should_continue_refinement as it would be with "iterations > max_iterations"
should_continue_refinement_off_by_one(s, max_iterations) ==
    LET critique == Get(s, "critique", [type |-> "dict", decision |-> PyStr("PASS")])
        iterations == Get(s, "iterations", 0)
    IN  IF iterations > max_iterations THEN "format"
        ELSE IF critique.type = "dict"
        THEN LET decision == Get(critique, "decision", PyStr("PASS"))
             IN  IF decision.type # "str" THEN "raise"
                 ELSE IF Upper(decision.value) = "PASS" THEN "format"
                 ELSE "refine"
        ELSE IF Contains(Upper(StrOf(critique)), "PASS") THEN "format"
        ELSE "refine"

\* should_continue_refinement as it would be if the decision were not looked at
should_continue_refinement_ignores_decision(s, max_iterations) ==
    IF Get(s, "iterations", 0) >= max_iterations THEN "format" ELSE "refine"

\* the conditional edge after the critic: "format", "refine", or "raise" when
\* the decision of a dict critique has no .upper()
should_continue_refinement(s, max_iterations) ==
    LET critique == Get(s, "critique", [type |-> "dict", decision |-> PyStr("PASS")])
        iterations == Get(s, "iterations", 0)
    IN  IF iterations >= max_iterations THEN "format"
        ELSE IF critique.type = "dict"
        THEN LET decision == Get(critique, "decision", PyStr("PASS"))
             IN  IF decision.type # "str" THEN "raise"
                 ELSE IF Upper(decision.value) = "PASS" THEN "format"
                 ELSE "refine"
        ELSE IF Contains(Upper(StrOf(critique)), "PASS") THEN "format"
        ELSE "refine"

\* the edges as they would be if "refine" led back to the critic, past the
\* refiner and its counter
EdgeTarget_refine_skips_refiner(route) ==
    CASE route = "format" -> "formatter"
      [] route = "refine" -> "critic"
      [] OTHER -> "except"

\* the edges of create_analysis_graph
EdgeTarget(route) ==
    CASE route = "format" -> "formatter"
      [] route = "refine" -> "refiner"
      [] OTHER -> "except"

\* the initial state as it would be if the summary started as the all-null dict
initial_state_with_summary(sector, country) ==
    [sector |-> sector,
     country |-> country,
     raw_data |-> None,
     search_results |-> None,
     markdown_report |-> None,
     critique |-> None,
     iterations |-> 0,
     error |-> None,
     timestamp |-> "now_iso",
     json_summary |-> NullSummary]

initial_state(sector, country) ==
    [sector |-> sector,
     country |-> country,
     raw_data |-> None,
     search_results |-> None,
     markdown_report |-> None,
     critique |-> None,
     iterations |-> 0,
     error |-> None,
     timestamp |-> "now_iso",
     json_summary |-> None]

_generate_error_report(sector, country, error) ==
    Text("error_report",
         ERROR_REPORT_TEMPLATE_LEN + 2 * Len(sector) + 2 * Len(country) + Len(error))

\* the except branch as it would be without the synthetic report
CatchAllResult_no_report(sector, country, e) ==
    Set(initial_state(sector, country),
        "error", PyStr("Workflow execution failed: " \o e))

\* the except branch as it would be if, like collector_node's, it also left an
\* empty list of search results
CatchAllResult_empty_results(sector, country, e) ==
    Set(Set(Set(initial_state(sector, country),
                "error", PyStr("Workflow execution failed: " \o e)),
            "markdown_report", _generate_error_report(sector, country, e)),
        "search_results", PyList(<<>>))

\* the except branch of execute_analysis: what it returns
CatchAllResult(sector, country, e) ==
    Set(Set(initial_state(sector, country),
            "error", PyStr("Workflow execution failed: " \o e)),
        "markdown_report", _generate_error_report(sector, country, e))

(***************************************************************************)
(* One run of execute_analysis(sector, country).                           *)
(***************************************************************************)
VARIABLES
    settings,        \* app.core.config.settings
    pc,              \* the node about to run, "except" (inside the catch-all), or "done"
    state,           \* the workflow state held by the graph
    exc,             \* str(e) of the exception on its way to the catch-all, or None
    final_state,     \* what execute_analysis returned, or NotReturned
    llm_calls,       \* history: the number of LLM calls made, by kind
    llm_all_failed,  \* history: no LLM call so far brought content
    refiner_runs,    \* history: the number of times the refiner node ran
    last_node,       \* history: the node that ran last
    last_llm,        \* history: the LLM's answer to the last node's call, or NoCall
    trace,           \* history: the nodes that ran, in order, each with its outcome
    \* one call of DataCollector.collect_sector_data
    idx,             \* the number of the query about to run, 0 outside the call
    all_results,     \* the entries retained so far
    seen_content,    \* the content hashes seen so far
    data,            \* the dict the call returned, or None
    encountered,     \* history: the search results the loop went through, in order
    use_gnews,       \* DataCollector.use_gnews: a GNews API key is configured
    tries,           \* history: the search attempts of the latest query that had any
    query_outcomes,  \* history: per query run so far, "returned" or "skipped"
    \* app.services.in_memory_store.rate_limiter and the clock
    limits,          \* requests_per_minute and requests_per_hour of the rate limiter
    now,             \* what datetime.utcnow() returns, in ticks
    minute_requests, \* per user, the timestamps of the minute window, oldest first
    hour_requests,   \* per user, the timestamps of the hour window, oldest first
    last_call,       \* history: the last call of the rate limiter and what it returned
    advances,        \* history: the number of times the clock was seen to advance
    admissions,      \* history: per user, the times of the admitted requests, in order
    \* one request to the analyze or the download endpoint
    keys,            \* api_key_store.keys
    request,         \* the endpoint, the X-API-Key header and the sector of the path
    api_pc,          \* where the request is: "auth", "rate_limit", "pipeline", "done"
    current_user,    \* the username get_current_user resolved, or None
    response,        \* what the client received, or None
    events,          \* history: what the request called, in order
    key_call,        \* history: the last call of the key store and what it returned
    key_log,         \* history: the calls of generate_key and revoke_key, in order
    \* the requests in flight on the server's event loop
    task_pc,         \* per request, where its handler is
    running,         \* the request whose code the event loop is executing, or NoTask
    lock,            \* the request that holds rate_limiter._lock, or NoTask
    task_user,       \* per request, the user_id it resolved to
    task_now,        \* per request, the local now of its check_rate_limit call
    basis,           \* history: per request, the windows its check started from
    admitted         \* per request, what check_rate_limit decided: "yes", "no", or "undecided"

\* the variables of one run of execute_analysis
pipeline_vars == <<settings, pc, state, exc, final_state, llm_calls, llm_all_failed,
                   refiner_runs, last_node, last_llm, trace>>

\* the variables of one call of collect_sector_data
collect_vars == <<idx, all_results, seen_content, data, encountered, use_gnews, tries,
                  query_outcomes>>

\* the rate limiter and the clock
limiter_vars == <<limits, now, minute_requests, hour_requests, last_call, advances,
                  admissions>>

\* the key store and one request
api_vars == <<keys, request, api_pc, current_user, response, events, key_call, key_log>>

\* the event loop and the requests in flight
server_vars == <<task_pc, running, lock, task_user, task_now, basis, admitted>>

\* the variables outside execute_analysis, which no node touches
outside_pipeline == <<collect_vars, limiter_vars, api_vars, server_vars>>

\* the variables outside collect_sector_data
outside_collect == <<pipeline_vars, limiter_vars, api_vars, server_vars>>

\* the variables outside the rate limiter
outside_limiter == <<pipeline_vars, collect_vars, api_vars, server_vars>>

\* the variables outside one request's way through the endpoints
outside_api == <<collect_vars, server_vars, key_call, key_log>>

vars == <<pipeline_vars, outside_pipeline>>

LongSector == Repeat("agro", LongSectorRepeats)

Sectors == {"pharmaceuticals", LongSector}

DEFAULT_COUNTRY == "India"

NodeNames == {"collector", "analyzer", "critic", "refiner", "formatter"}

LLMKinds == {"generate", "critique", "refine", "format"}

NotReturned == [type |-> "not_returned"]

\* the history counters stop at CountCap, which no run of the workflow reaches
CountCap == MaxIterationsBound + 3

Count(n) == IF n < CountCap THEN n + 1 ELSE n

Called(kind) == [llm_calls EXCEPT ![kind] = Count(@)]

\* the history trace stops at TraceCap entries, which no run of the workflow reaches
TraceCap == 2 * MaxIterationsBound + 6

\* the trace with one more node and what came of it: "ok" or "failed" for the
\* collector's collection and the analyzer's generate call, "pass" or "fail"
\* for what the conditional edge makes of the critic's critique, "-" otherwise
Ran(node, outcome) ==
    IF Len(trace) < TraceCap
    THEN Append(trace, [node |-> node, outcome |-> outcome])
    ELSE trace

\* Settings.max_refinement_iterations is an int read from the environment
\* with no validator: a negative ceiling is accepted like any other
ConfiguredCeilings == (-1)..MaxIterationsBound

\* no call of collect_sector_data is being followed query by query
CollectIdle ==
    /\ idx = 0
    /\ all_results = <<>>
    /\ seen_content = {}
    /\ data = None
    /\ encountered = <<>>
    /\ use_gnews = FALSE
    /\ tries = <<>>
    /\ query_outcomes = <<>>

\* the identities requests resolve to
UserIds == {"guest", "demo"}

\* last_call before any call
NoCallYet == [op |-> "none"]

\* the rate limiter as the module creates it, never called
LimiterIdle ==
    /\ limits = DefaultLimits
    /\ now = 0
    /\ minute_requests = [u \in UserIds |-> <<>>]
    /\ hour_requests = [u \in UserIds |-> <<>>]
    /\ last_call = NoCallYet
    /\ advances = 0
    /\ admissions = [u \in UserIds |-> <<>>]

\* no request is being followed through the endpoints
ApiIdle ==
    /\ keys = INITIAL_KEYS
    /\ request = None
    /\ api_pc = "idle"
    /\ current_user = None
    /\ response = None
    /\ events = <<>>
    /\ key_call = NoCallYet
    /\ key_log = <<>>

\* the requests in flight
Tasks == {1, 2}

\* no request
NoTask == 0

\* no request is in flight on the event loop
ServerIdle ==
    /\ task_pc = [t \in Tasks |-> "idle"]
    /\ running = NoTask
    /\ lock = NoTask
    /\ task_user = [t \in Tasks |-> "guest"]
    /\ task_now = [t \in Tasks |-> 0]
    /\ basis = [t \in Tasks |-> None]
    /\ admitted = [t \in Tasks |-> "undecided"]

Init ==
    /\ CollectIdle
    /\ LimiterIdle
    /\ ApiIdle
    /\ ServerIdle
    /\ settings \in [max_refinement_iterations : ConfiguredCeilings]
    /\ pc = "collector"
    /\ \E sector \in Sectors : state = initial_state(sector, DEFAULT_COUNTRY)
    /\ exc = None
    /\ final_state = NotReturned
    /\ llm_calls = [k \in LLMKinds |-> 0]
    /\ llm_all_failed = TRUE
    /\ refiner_runs = 0
    /\ last_node = "none"
    /\ last_llm = NoCall
    /\ trace = <<>>

\* node "collector", then the edge to the analyzer
Collector ==
    /\ pc = "collector"
    /\ \E outcome \in CollectorOutcomes :
          /\ state' = collector_node(state, outcome)
          /\ trace' = Ran("collector", IF outcome.kind = "raise" THEN "failed" ELSE "ok")
    /\ pc' = "analyzer"
    /\ last_node' = "collector"
    /\ last_llm' = NoCall
    /\ UNCHANGED <<settings, exc, final_state, llm_calls, llm_all_failed, refiner_runs>>
    /\ UNCHANGED outside_pipeline

\* node "analyzer", then the edge to the critic
Analyzer ==
    /\ pc = "analyzer"
    /\ \E resp \in GenerateResponses :
          /\ state' = analyzer_node(state, resp)
          /\ last_llm' = resp
          /\ llm_all_failed' = (llm_all_failed /\ LLMFailed(resp))
          /\ trace' = Ran("analyzer", IF LLMFailed(resp) THEN "failed" ELSE "ok")
    /\ llm_calls' = Called("generate")
    /\ pc' = "critic"
    /\ last_node' = "analyzer"
    /\ UNCHANGED <<settings, exc, final_state, refiner_runs>>
    /\ UNCHANGED outside_pipeline

\* node "critic", then the conditional edge should_continue_refinement
Critic ==
    /\ pc = "critic"
    /\ \E resp \in CritiqueResponses :
          \E new \in {critic_node(state, resp)} :
          \E route \in {should_continue_refinement(new.state,
                                                   settings.max_refinement_iterations)} :
              /\ state' = new.state
              /\ last_llm' = new.llm
              /\ llm_all_failed' = (llm_all_failed /\ LLMFailed(new.llm))
              /\ llm_calls' = IF new.llm = NoCall THEN llm_calls ELSE Called("critique")
              /\ pc' = EdgeTarget(route)
              /\ exc' = IF route = "raise" THEN PyStr("AttributeError") ELSE exc
              /\ trace' = Ran("critic", IF passed(new.state) THEN "pass" ELSE "fail")
    /\ last_node' = "critic"
    /\ UNCHANGED <<settings, final_state, refiner_runs>>
    /\ UNCHANGED outside_pipeline

\* node "refiner", then the edge back to the critic
Refiner ==
    /\ pc = "refiner"
    /\ \E resp \in RefineResponses :
          /\ state' = refiner_node(state, resp)
          /\ last_llm' = resp
          /\ llm_all_failed' = (llm_all_failed /\ LLMFailed(resp))
          /\ trace' = Ran("refiner", "-")
    /\ llm_calls' = Called("refine")
    /\ refiner_runs' = Count(refiner_runs)
    /\ pc' = "critic"
    /\ last_node' = "refiner"
    /\ UNCHANGED <<settings, exc, final_state>>
    /\ UNCHANGED outside_pipeline

\* node "formatter", then the edge to END: ainvoke returns the final state and
\* execute_analysis returns it
Formatter ==
    /\ pc = "formatter"
    /\ \E resp \in FormatResponses :
          /\ state' = formatter_node(state, resp)
          /\ last_llm' = resp
          /\ llm_all_failed' = (llm_all_failed /\ LLMFailed(resp))
          /\ trace' = Ran("formatter", "-")
    /\ llm_calls' = Called("format")
    /\ final_state' = state'
    /\ pc' = "done"
    /\ last_node' = "formatter"
    /\ UNCHANGED <<settings, exc, refiner_runs>>
    /\ UNCHANGED outside_pipeline

\* an exception leaves create_analysis_graph or graph.ainvoke (a failure of the
\* graph library itself, such as its recursion limit): control passes to the
\* except branch of execute_analysis
GraphFault ==
    /\ pc \in NodeNames
    /\ pc' = "except"
    /\ exc' = PyStr("graph execution failed")
    /\ UNCHANGED <<settings, state, final_state, llm_calls, llm_all_failed,
                   refiner_runs, last_node, last_llm, trace>>
    /\ UNCHANGED outside_pipeline

\* the except branch of execute_analysis: the graph never saw initial_state's
\* own dict change, and that dict is what is returned
CatchAll ==
    /\ pc = "except"
    /\ final_state' = CatchAllResult(state.sector, state.country, exc.value)
    /\ pc' = "done"
    /\ UNCHANGED <<settings, state, exc, llm_calls, llm_all_failed, refiner_runs,
                   last_node, last_llm, trace>>
    /\ UNCHANGED outside_pipeline

Next ==
    \/ Collector
    \/ Analyzer
    \/ Critic
    \/ Refiner
    \/ Formatter
    \/ GraphFault
    \/ CatchAll

Spec == Init /\ [][Next]_vars

\* every stage call returns and the event loop runs the next step
FairSpec == Spec /\ WF_vars(Next)

TypeOK ==
    /\ pc \in NodeNames \cup {"except", "done"}
    /\ settings.max_refinement_iterations \in ConfiguredCeilings
    /\ state.iterations \in 0..MaxIterationsBound
    /\ refiner_runs < CountCap
    /\ \A k \in LLMKinds : llm_calls[k] < CountCap

(***************************************************************************)
(* One call of collect_sector_data, query by query.                        *)
(***************************************************************************)
\* no request is inside execute_analysis
PipelineIdle ==
    /\ settings = [max_refinement_iterations |-> 1]
    /\ pc = "idle"
    /\ state = None
    /\ exc = None
    /\ final_state = NotReturned
    /\ llm_calls = [k \in LLMKinds |-> 0]
    /\ llm_all_failed = TRUE
    /\ refiner_runs = 0
    /\ last_node = "none"
    /\ last_llm = NoCall
    /\ trace = <<>>

\* a search result as the providers return it
Result(title, body, source, href) ==
    [title |-> title, body |-> body, source |-> source, href |-> href]

\* the long bodies agree on their first CONTENT_HASH_LENGTH word characters
LongBody(last) == Repeat("exports ", 15) \o last

\* what _search_with_retry returns for one query: at most max_results results
SearchAnswers ==
    {<<>>,
     <<Result("Pharma exports grow", "Exports rose 12% in 2024.", "Reuters", "u1"),
       Result("Generic drug makers", "Plants expand in Gujarat.", "Unknown", "u2"),
       Result("Demand outlook", "Demand is steady. Read more:", "Mint blog", "u3")>>,
     <<Result("API policy", "New scheme for bulk drugs.", "Ministry of Commerce", "u4"),
       [title |-> "Hospital chains", body |-> "Beds added this year.", href |-> "u5"],
       [title |-> "Vaccine makers", body |-> "Latest orders from Africa.", href |-> "u6"]>>,
     <<Result("Pricing rules", "Caps on stents stay.", "Unknown", "u7"),
       Result("Clinical trials", "More sites open.", "Unknown", "u8"),
       Result("Investment in biotech", "Funds flow to startups.", "Bloomberg", "u9")>>,
     <<Result("Export news", "exports rose 12 in 2024", "Unknown", "u10"),
       Result("API policy", "New scheme for bulk drugs.", "Ministry of Commerce", "u4")>>,
     <<Result("Exports update", "Exports [rose] 12% in 2024.", "Unknown", "u11")>>,
     <<Result("Export digest", LongBody("rise"), "Unknown", "u12"),
       Result("Export digest", LongBody("fall"), "Unknown", "u13")>>}

CollectInit ==
    /\ PipelineIdle
    /\ LimiterIdle
    /\ ApiIdle
    /\ ServerIdle
    /\ idx = 1
    /\ all_results = <<>>
    /\ seen_content = {}
    /\ data = None
    /\ encountered = <<>>
    /\ use_gnews \in BOOLEAN
    /\ tries = <<>>
    /\ query_outcomes = <<>>

\* the attempts made so far on the query about to be searched
SearchAttempts == IF tries # <<>> /\ tries[1].query = idx THEN tries ELSE <<>>

\* one more attempt on the query about to be searched
Attempt(outcome) ==
    Append(SearchAttempts,
           [query |-> idx, backend |-> NextBackend(use_gnews, SearchAttempts),
            outcome |-> outcome])

\* one turn of the loop over the queries: an attempt of the search returns
\* results, which the inner loop goes through
CollectQuery ==
    /\ idx \in 1..QUERY_COUNT
    /\ \E results \in SearchAnswers :
          /\ Len(results) <= MAX_RESULTS_PER_QUERY
          /\ CanReturn(NextBackend(use_gnews, SearchAttempts), results)
          /\ \E acc \in {ProcessResults([all_results |-> all_results,
                                         seen_content |-> seen_content],
                                        results, Len(results), idx)} :
                /\ all_results' = acc.all_results
                /\ seen_content' = acc.seen_content
          /\ encountered' = encountered \o results
    /\ idx' = idx + 1
    /\ tries' = Attempt("returned")
    /\ query_outcomes' = Append(query_outcomes, "returned")
    /\ UNCHANGED <<data, use_gnews, outside_collect>>

\* an attempt of the search raises and another one follows: GNews raised and
\* _search_with_retry falls through to DuckDuckGo, or DuckDuckGo raised and
\* the retry decorator waits and calls it again
SearchAttemptFailed ==
    /\ idx \in 1..QUERY_COUNT
    /\ ~Exhausted(Attempt("raised"))
    /\ tries' = Attempt("raised")
    /\ UNCHANGED <<idx, all_results, seen_content, data, encountered, use_gnews,
                   query_outcomes, outside_collect>>

\* one turn of the loop over the queries: the last attempt of the search
\* raises, the exception leaves _search_with_retry, and the loop continues
\* with the next query
CollectQueryFailed ==
    /\ idx \in 1..QUERY_COUNT
    /\ Exhausted(Attempt("raised"))
    /\ tries' = Attempt("raised")
    /\ idx' = AfterFailedQuery(idx)
    /\ query_outcomes' = Append(query_outcomes, "skipped")
    /\ UNCHANGED <<all_results, seen_content, data, encountered, use_gnews,
                   outside_collect>>

\* after the loop: the sort in place, the cut and the returned dict
CollectReturn ==
    /\ idx = QUERY_COUNT + 1
    /\ data = None
    /\ all_results' = SortByPriority(all_results, Len(all_results))
    /\ data' = CollectedData("pharmaceuticals", DEFAULT_COUNTRY, all_results)
    /\ UNCHANGED <<idx, seen_content, encountered, use_gnews, tries, query_outcomes,
                   outside_collect>>

CollectNext ==
    \/ CollectQuery
    \/ SearchAttemptFailed
    \/ CollectQueryFailed
    \/ CollectReturn

CollectSpec == CollectInit /\ [][CollectNext]_vars

(***************************************************************************)
(* The rate limiter, call by call, as the clock advances.                  *)
(***************************************************************************)
\* a RateLimiter with low limits, as __init__ accepts them
LowLimits == [requests_per_minute |-> 2, requests_per_hour |-> 3]

LimiterConfigs == {DefaultLimits, LowLimits}

\* the steps by which the clock is seen to advance between two calls
Advances == {MINUTE - 1, MINUTE, HOUR - MINUTE + 1}

\* the traffic of the identities other than guest is light
LightTraffic(user_id) ==
    user_id = "guest" \/ Len(admissions[user_id]) < MaxOtherRequests

\* the admitted requests with the one check_rate_limit has just admitted, if
\* it has
Admitted(r, user_id, at) ==
    IF r.allowed THEN [admissions EXCEPT ![user_id] = Append(@, at)] ELSE admissions

LimiterInit ==
    /\ PipelineIdle
    /\ CollectIdle
    /\ ApiIdle
    /\ ServerIdle
    /\ limits \in LimiterConfigs
    /\ now = 0
    /\ minute_requests = [u \in UserIds |-> <<>>]
    /\ hour_requests = [u \in UserIds |-> <<>>]
    /\ last_call = NoCallYet
    /\ advances = 0
    /\ admissions = [u \in UserIds |-> <<>>]

\* time passes
Advance ==
    /\ advances < MaxAdvances
    /\ \E d \in Advances : now' = now + d
    /\ advances' = advances + 1
    /\ UNCHANGED <<limits, minute_requests, hour_requests, last_call, admissions,
                   outside_limiter>>

\* await rate_limiter.check_rate_limit(user_id)
CheckRateLimit ==
    \E user_id \in UserIds :
        /\ LightTraffic(user_id)
        /\ \E r \in {check_rate_limit(limits, minute_requests, hour_requests, user_id, now)} :
            /\ minute_requests' = r.minute_requests
            /\ hour_requests' = r.hour_requests
            /\ last_call' = [op |-> "check_rate_limit", user_id |-> user_id, at |-> now,
                             allowed |-> r.allowed, message |-> r.message]
            /\ admissions' = Admitted(r, user_id, now)
            /\ UNCHANGED <<limits, now, advances, outside_limiter>>

\* rate_limiter.get_remaining_requests(user_id)
GetRemainingRequests ==
    \E user_id \in UserIds :
        \E r \in {get_remaining_requests(limits, minute_requests, hour_requests,
                                         user_id, now)} :
            /\ minute_requests' = r.minute_requests
            /\ hour_requests' = r.hour_requests
            /\ last_call' = [op |-> "get_remaining_requests", user_id |-> user_id,
                             at |-> now, remaining |-> r.remaining]
            /\ UNCHANGED <<limits, now, advances, admissions, outside_limiter>>

LimiterNext ==
    \/ Advance
    \/ CheckRateLimit
    \/ GetRemainingRequests

LimiterSpec == LimiterInit /\ [][LimiterNext]_vars

(***************************************************************************)
(* One request to the analyze or the download endpoint, from the           *)
(* authentication dependency to the response.                              *)
(***************************************************************************)
\* Settings.max_refinement_iterations when the environment does not set it
DEFAULT_MAX_REFINEMENT_ITERATIONS == 1

\* the X-API-Key headers of the requests: none, a key of the store, a key
\* the store does not know
ApiKeys == {NoKey, PyStr("demo-key-12345"), PyStr("stale-key-00000")}

\* the sector of the path, as the client wrote it
RawSectors == {" Pharmaceuticals "}

Endpoints == {"analyze", "download"}

\* n requests recorded at time 0
RecordedAtZero(n) == [i \in 1..n |-> 0]

\* the requests each user has on record when the request arrives: none, or
\* as many as the per-minute limit allows
RecordedAtStart == {0, DEFAULT_REQUESTS_PER_MINUTE}

ApiInit ==
    /\ CollectIdle
    /\ ServerIdle
    /\ settings = [max_refinement_iterations |-> DEFAULT_MAX_REFINEMENT_ITERATIONS]
    /\ pc = "idle"
    /\ state = None
    /\ exc = None
    /\ final_state = NotReturned
    /\ llm_calls = [k \in LLMKinds |-> 0]
    /\ llm_all_failed = TRUE
    /\ refiner_runs = 0
    /\ last_node = "none"
    /\ last_llm = NoCall
    /\ trace = <<>>
    /\ limits = DefaultLimits
    /\ now = 0
    /\ \E n \in RecordedAtStart :
          /\ minute_requests = [u \in UserIds |-> RecordedAtZero(n)]
          /\ hour_requests = [u \in UserIds |-> RecordedAtZero(n)]
          /\ admissions = [u \in UserIds |-> RecordedAtZero(n)]
    /\ last_call = NoCallYet
    /\ advances = 0
    /\ keys = INITIAL_KEYS
    /\ request \in [endpoint : Endpoints, api_key : ApiKeys, sector : RawSectors]
    /\ api_pc = "auth"
    /\ current_user = None
    /\ response = None
    /\ events = <<>>
    /\ key_call = NoCallYet
    /\ key_log = <<>>

\* Depends(get_current_user): the dependency runs before the endpoint's body
Authenticate ==
    /\ api_pc = "auth"
    /\ \E user \in {get_current_user(keys, request.api_key)} :
          IF user.raised
          THEN /\ response' = user
               /\ api_pc' = "done"
               /\ UNCHANGED current_user
          ELSE /\ current_user' = PyStr(user.username)
               /\ api_pc' = "rate_limit"
               /\ UNCHANGED response
    /\ events' = Append(events, "get_current_user")
    /\ UNCHANGED <<keys, request, pipeline_vars, limiter_vars, outside_api>>

\* analyze_sector up to the call of execute_analysis, and execute_analysis up
\* to graph.ainvoke
RateLimit ==
    /\ api_pc = "rate_limit"
    /\ \E sector \in {Lower(Strip(request.sector))} :
       \E r \in {check_rate_limit(limits, minute_requests, hour_requests,
                                  current_user.value, now)} :
          /\ minute_requests' = r.minute_requests
          /\ hour_requests' = r.hour_requests
          /\ last_call' = [op |-> "check_rate_limit", user_id |-> current_user.value,
                           at |-> now, allowed |-> r.allowed, message |-> r.message]
          /\ admissions' = Admitted(r, current_user.value, now)
          /\ IF Rejects(r)
             THEN /\ response' = HTTPException(429, r.message)
                  /\ api_pc' = "done"
                  /\ events' = Append(events, "check_rate_limit")
                  /\ UNCHANGED <<pc, state>>
             ELSE /\ api_pc' = "pipeline"
                  /\ events' = events \o <<"check_rate_limit", "execute_analysis">>
                  /\ pc' = "collector"
                  /\ state' = initial_state(sector, DEFAULT_COUNTRY)
                  /\ UNCHANGED response
    /\ UNCHANGED <<settings, exc, final_state, llm_calls, llm_all_failed, refiner_runs,
                   last_node, last_llm, trace>>
    /\ UNCHANGED <<limits, now, advances, keys, request, current_user, outside_api>>

\* analyze_sector after execute_analysis returned, and download_analysis
\* around it
Respond ==
    /\ api_pc = "pipeline"
    /\ pc = "done"
    /\ \E r \in {get_remaining_requests(limits, minute_requests, hour_requests,
                                         current_user.value, now)} :
          /\ minute_requests' = r.minute_requests
          /\ hour_requests' = r.hour_requests
          /\ last_call' = [op |-> "get_remaining_requests", user_id |-> current_user.value,
                           at |-> now, remaining |-> r.remaining]
    /\ \E result \in {AnalyzeResult(final_state, Lower(Strip(request.sector)))} :
          response' = IF request.endpoint = "download" THEN DownloadResult(result)
                      ELSE result
    /\ api_pc' = "done"
    /\ events' = events \o <<"get_remaining_requests", "response">>
    /\ UNCHANGED <<limits, now, advances, admissions, keys, request, current_user, pipeline_vars,
                   outside_api>>

ApiNext ==
    \/ Authenticate
    \/ RateLimit
    \/ Collector
    \/ Analyzer
    \/ Critic
    \/ Refiner
    \/ Formatter
    \/ GraphFault
    \/ CatchAll
    \/ Respond

ApiSpec == ApiInit /\ [][ApiNext]_vars

(***************************************************************************)
(* Two requests in flight on the server's one event loop.  A coroutine     *)
(* keeps the loop from one await that suspends to the next; a synchronous  *)
(* node runs in a thread of the executor while its request is suspended.   *)
(***************************************************************************)
\* the requests each user has on record when the two requests arrive: none,
\* one slot left, no slot left
ServerRecordedAtStart == RecordedAtStart \cup {DEFAULT_REQUESTS_PER_MINUTE - 1}

ServerInit ==
    /\ PipelineIdle
    /\ CollectIdle
    /\ ApiIdle
    /\ limits = DefaultLimits
    /\ now = 0
    /\ \E n \in ServerRecordedAtStart :
          /\ minute_requests = [u \in UserIds |-> RecordedAtZero(n)]
          /\ hour_requests = [u \in UserIds |-> RecordedAtZero(n)]
          /\ admissions = [u \in UserIds |-> RecordedAtZero(n)]
    /\ last_call = NoCallYet
    /\ advances = 0
    /\ task_pc = [t \in Tasks |-> "start"]
    /\ running = NoTask
    /\ lock = NoTask
    /\ \E u \in UserIds : task_user = [t \in Tasks |-> IF t = 1 THEN "guest" ELSE u]
    /\ task_now = [t \in Tasks |-> 0]
    /\ basis = [t \in Tasks |-> None]
    /\ admitted = [t \in Tasks |-> "undecided"]

\* the event loop can execute code of request t: no other request's code is
\* being executed
CanRun(t) == running = NoTask \/ running = t

\* the windows of request t's user
WindowsOf(t) == <<minute_requests[task_user[t]], hour_requests[task_user[t]]>>

\* check_rate_limit as it would be with an await between its test and its
\* appends: the loop is free in between
HoldsLoopToRecord_yields(t) == NoTask

\* between the test and the appends of check_rate_limit there is no await:
\* the request keeps the loop
HoldsLoopToRecord(t) == t

\* async with self._lock: the lock is free and is taken without suspending
Acquire(t) ==
    /\ task_pc[t] = "start"
    /\ CanRun(t)
    /\ lock = NoTask
    /\ lock' = t
    /\ running' = t
    /\ task_pc' = [task_pc EXCEPT ![t] = "locked"]
    /\ UNCHANGED <<task_user, task_now, basis, admitted, limiter_vars>>
    /\ UNCHANGED <<pipeline_vars, collect_vars, api_vars>>

\* now = datetime.utcnow(); self._clean_old_entries(user_id, now)
Prune(t) ==
    /\ task_pc[t] = "locked"
    /\ CanRun(t)
    /\ \E c \in {_clean_old_entries(minute_requests, hour_requests, task_user[t], now)} :
          /\ minute_requests' = c.minute_requests
          /\ hour_requests' = c.hour_requests
          /\ basis' = [basis EXCEPT ![t] = <<c.minute_requests[task_user[t]],
                                             c.hour_requests[task_user[t]]>>]
    /\ task_now' = [task_now EXCEPT ![t] = now]
    /\ running' = t
    /\ task_pc' = [task_pc EXCEPT ![t] = "pruned"]
    /\ UNCHANGED <<lock, task_user, admitted, limits, now, last_call, advances, admissions>>
    /\ UNCHANGED <<pipeline_vars, collect_vars, api_vars>>

\* the two tests of check_rate_limit
Check(t) ==
    /\ task_pc[t] = "pruned"
    /\ CanRun(t)
    /\ \E ok \in {/\ Len(minute_requests[task_user[t]]) < limits.requests_per_minute
                   /\ Len(hour_requests[task_user[t]]) < limits.requests_per_hour} :
          /\ admitted' = [admitted EXCEPT ![t] = IF ok THEN "yes" ELSE "no"]
          /\ task_pc' = [task_pc EXCEPT ![t] = IF ok THEN "record" ELSE "release"]
          /\ running' = IF ok THEN HoldsLoopToRecord(t) ELSE t
    /\ UNCHANGED <<lock, task_user, task_now, basis, limiter_vars>>
    /\ UNCHANGED <<pipeline_vars, collect_vars, api_vars>>

\* the two appends of check_rate_limit
Record(t) ==
    /\ task_pc[t] = "record"
    /\ CanRun(t)
    /\ minute_requests' = [minute_requests EXCEPT ![task_user[t]] = Append(@, task_now[t])]
    /\ hour_requests' = [hour_requests EXCEPT ![task_user[t]] = Append(@, task_now[t])]
    /\ admissions' = [admissions EXCEPT ![task_user[t]] = Append(@, task_now[t])]
    /\ running' = t
    /\ task_pc' = [task_pc EXCEPT ![t] = "release"]
    /\ UNCHANGED <<lock, task_user, task_now, basis, admitted, limits, now, last_call,
                   advances>>
    /\ UNCHANGED <<pipeline_vars, collect_vars, api_vars>>

\* the lock is released and check_rate_limit returns: a rejected request is
\* answered with 429, an admitted one goes on to execute_analysis, where the
\* graph schedules the collector node and the handler is suspended
Release(t) ==
    /\ task_pc[t] = "release"
    /\ CanRun(t)
    /\ lock' = NoTask
    /\ running' = NoTask
    /\ task_pc' = [task_pc EXCEPT ![t] = IF admitted[t] = "yes" THEN "collector" ELSE "done"]
    /\ UNCHANGED <<task_user, task_now, basis, admitted, limiter_vars>>
    /\ UNCHANGED <<pipeline_vars, collect_vars, api_vars>>

\* collector_node is a coroutine: the loop runs it, and it calls
\* collect_sector_data, whose first search is a blocking network call
CollectorSearch(t) ==
    /\ task_pc[t] = "collector"
    /\ CanRun(t)
    /\ running' = t
    /\ task_pc' = [task_pc EXCEPT ![t] = "searching"]
    /\ UNCHANGED <<lock, task_user, task_now, basis, admitted, limiter_vars>>
    /\ UNCHANGED <<pipeline_vars, collect_vars, api_vars>>

\* the search returned; before the next query, time.sleep(delay)
CollectorDelay(t) ==
    /\ task_pc[t] = "searching"
    /\ CanRun(t)
    /\ running' = t
    /\ task_pc' = [task_pc EXCEPT ![t] = "sleeping"]
    /\ UNCHANGED <<lock, task_user, task_now, basis, admitted, limiter_vars>>
    /\ UNCHANGED <<pipeline_vars, collect_vars, api_vars>>

\* the collection is over and collector_node returns: the graph schedules
\* the next node, a synchronous function
CollectorReturn(t) ==
    /\ task_pc[t] = "sleeping"
    /\ CanRun(t)
    /\ running' = NoTask
    /\ task_pc' = [task_pc EXCEPT ![t] = "node"]
    /\ UNCHANGED <<lock, task_user, task_now, basis, admitted, limiter_vars>>
    /\ UNCHANGED <<pipeline_vars, collect_vars, api_vars>>

\* the graph hands a synchronous node (analyzer, critic, refiner, formatter)
\* to the executor: its LLM call is made in a thread
NodeToThread(t) ==
    /\ task_pc[t] = "node"
    /\ CanRun(t)
    /\ running' = NoTask
    /\ task_pc' = [task_pc EXCEPT ![t] = "llm_call"]
    /\ UNCHANGED <<lock, task_user, task_now, basis, admitted, limiter_vars>>
    /\ UNCHANGED <<pipeline_vars, collect_vars, api_vars>>

\* the LLM call returns in its thread, whatever the loop is executing
ThreadReturns(t) ==
    /\ task_pc[t] = "llm_call"
    /\ task_pc' = [task_pc EXCEPT ![t] = "returned"]
    /\ UNCHANGED <<running, lock, task_user, task_now, basis, admitted, limiter_vars>>
    /\ UNCHANGED <<pipeline_vars, collect_vars, api_vars>>

\* execute_analysis returns to analyze_sector, which calls
\* get_remaining_requests, outside the lock, and answers
Finish(t) ==
    /\ task_pc[t] = "returned"
    /\ CanRun(t)
    /\ \E r \in {get_remaining_requests(limits, minute_requests, hour_requests,
                                         task_user[t], now)} :
          /\ minute_requests' = r.minute_requests
          /\ hour_requests' = r.hour_requests
    /\ running' = NoTask
    /\ task_pc' = [task_pc EXCEPT ![t] = "done"]
    /\ UNCHANGED <<lock, task_user, task_now, basis, admitted, limits, now, last_call,
                   advances, admissions>>
    /\ UNCHANGED <<pipeline_vars, collect_vars, api_vars>>

\* one step of request t
TaskStep(t) ==
    \/ Acquire(t)
    \/ Prune(t)
    \/ Check(t)
    \/ Record(t)
    \/ Release(t)
    \/ CollectorSearch(t)
    \/ CollectorDelay(t)
    \/ CollectorReturn(t)
    \/ NodeToThread(t)
    \/ ThreadReturns(t)
    \/ Finish(t)

ServerNext ==
    \/ Advance
    \/ \E t \in Tasks : Acquire(t)
    \/ \E t \in Tasks : Prune(t)
    \/ \E t \in Tasks : Check(t)
    \/ \E t \in Tasks : Record(t)
    \/ \E t \in Tasks : Release(t)
    \/ \E t \in Tasks : CollectorSearch(t)
    \/ \E t \in Tasks : CollectorDelay(t)
    \/ \E t \in Tasks : CollectorReturn(t)
    \/ \E t \in Tasks : NodeToThread(t)
    \/ \E t \in Tasks : ThreadReturns(t)
    \/ \E t \in Tasks : Finish(t)

ServerSpec == ServerInit /\ [][ServerNext]_vars

(***************************************************************************)
(* The key store: calls of generate_key, verify_key and revoke_key, in any *)
(* order.                                                                  *)
(***************************************************************************)
\* the users keys are issued to
KeyUsers == {"demo", "alice"}

\* what secrets.token_urlsafe(16) brings: 22 characters of the url-safe
\* alphabet, drawn at random, the same twice included
Tokens == {"Zm9vYmFyYmF6cXV4MTIzNA", "q1W2e3R4t5Y6u7I8o9P0-_"}

\* the keys presented to verify_key and revoke_key: a key of the constructor,
\* the keys generate_key can issue, and a key never issued
PresentedKeys ==
    {"demo-key-12345", "stale-key-00000"} \cup
    {generate_key(INITIAL_KEYS, user_id, token).api_key : user_id \in KeyUsers, token \in Tokens}

KeyInit ==
    /\ PipelineIdle
    /\ CollectIdle
    /\ LimiterIdle
    /\ ApiIdle
    /\ ServerIdle

\* api_key_store.generate_key(user_id)
GenerateKey ==
    /\ Len(key_log) < MaxKeyCalls
    /\ \E user_id \in KeyUsers, token \in Tokens :
          \E r \in {generate_key(keys, user_id, token)} :
              /\ keys' = r.keys
              /\ key_call' = [op |-> "generate_key", user_id |-> user_id,
                              returned |-> r.api_key]
              /\ key_log' = Append(key_log, [op |-> "generate_key", api_key |-> r.api_key,
                                             user_id |-> user_id])
    /\ UNCHANGED <<request, api_pc, current_user, response, events>>
    /\ UNCHANGED <<pipeline_vars, collect_vars, limiter_vars, server_vars>>

\* api_key_store.verify_key(api_key)
VerifyKey ==
    /\ \E api_key \in PresentedKeys :
          key_call' = [op |-> "verify_key", api_key |-> api_key,
                       returned |-> verify_key(keys, api_key)]
    /\ UNCHANGED <<keys, key_log, request, api_pc, current_user, response, events>>
    /\ UNCHANGED <<pipeline_vars, collect_vars, limiter_vars, server_vars>>

\* api_key_store.revoke_key(api_key)
RevokeKey ==
    /\ Len(key_log) < MaxKeyCalls
    /\ \E api_key \in PresentedKeys :
          \E r \in {revoke_key(keys, api_key)} :
              /\ keys' = r.keys
              /\ key_call' = [op |-> "revoke_key", api_key |-> api_key,
                              returned |-> r.revoked]
              /\ key_log' = Append(key_log, [op |-> "revoke_key", api_key |-> api_key,
                                             user_id |-> "-"])
    /\ UNCHANGED <<request, api_pc, current_user, response, events>>
    /\ UNCHANGED <<pipeline_vars, collect_vars, limiter_vars, server_vars>>

KeyNext ==
    \/ GenerateKey
    \/ VerifyKey
    \/ RevokeKey

KeySpec == KeyInit /\ [][KeyNext]_vars

(***************************************************************************)
(* Vocabulary of the properties.                                           *)
(***************************************************************************)
MaxIterations == settings.max_refinement_iterations

\* the decision a stored critique carries, read case-insensitively: the
\* "decision" of a dict (PASS when the key is absent), the leading word of a str
CritiqueDecision(c) ==
    IF c.type = "dict"
    THEN IF "decision" \notin DOMAIN c THEN "PASS"
         ELSE IF c.decision.type = "str" THEN Upper(c.decision.value)
         ELSE "INVALID"
    ELSE IF c.type = "str"
    THEN IF StartsWith(Upper(c.value), "PASS") THEN "PASS"
         ELSE IF StartsWith(Upper(c.value), "FAIL") THEN "FAIL"
         ELSE "INVALID"
    ELSE "NONE"

\* this step is a run of the critic node (with its conditional edge)
CriticStep == pc = "critic" /\ last_node' = "critic"

\* this step is a run of the refiner node
RefinerStep == pc = "refiner" /\ last_node' = "refiner"

\* a report is absent or shorter than the minimum
ShortReport(r) == r.type # "str" \/ PyLen(r) < MIN_REPORT_LENGTH

\* the object the critique prompt asks for: two keys, both strings
IsCritiqueObject(v) ==
    /\ v.type = "dict"
    /\ Get(v, "decision", None).type = "str"
    /\ Get(v, "reason", None).type = "str"

\* the critique call raised, came back empty, or brought content that is not
\* the JSON of such an object
CritiqueUnusable(resp) ==
    \/ resp.kind \in {"raise", "no_content"}
    \/ /\ resp.kind = "content"
       /\ \/ ~JsonLoads(Strip(resp.content.value)).ok
          \/ ~IsCritiqueObject(JsonLoads(Strip(resp.content.value)).value)

\* the report of a returned result, None when there is none
ReturnedReport == Get(final_state, "markdown_report", None)

\* the error of a returned result, None when there is none
ReturnedError == Get(final_state, "error", None)

(***************************************************************************)
(* C1  Termination bound, as amended: whatever the collector and the model *)
(* answer, the refiner runs at most max(0, max_iterations) times, and      *)
(* iterations never exceeds max(0, max_iterations), in the workflow state  *)
(* and in the returned result.                                             *)
(***************************************************************************)
C1_TerminationBound ==
    LET ceiling == IF MaxIterations < 0 THEN 0 ELSE MaxIterations
    IN  /\ refiner_runs <= ceiling
        /\ state.iterations <= ceiling
        /\ (pc = "done" => Get(final_state, "iterations", 0) <= ceiling)

\* C1 as stated: iterations in the returned result never exceeds
\* max_iterations, whatever the configured ceiling
C1_Original ==
    /\ refiner_runs <= MaxIterations
    /\ (pc = "done" => Get(final_state, "iterations", 0) <= MaxIterations)

\* a completed run that used every allowed refinement and was still failing
C1_Witness ==
    /\ pc = "done"
    /\ exc = None
    /\ MaxIterations >= 1
    /\ refiner_runs = MaxIterations
    /\ final_state.iterations = MaxIterations
    /\ CritiqueDecision(final_state.critique) = "FAIL"

(***************************************************************************)
(* C2  Monotonic counter: iterations is the number of refiner runs so far  *)
(* (it starts at 0, each refiner run adds exactly 1, nothing else changes  *)
(* it), and in the returned result it is 0 if and only if the refiner      *)
(* never ran.                                                              *)
(***************************************************************************)
C2_MonotonicCounter ==
    /\ state.iterations = refiner_runs
    /\ (pc = "done" => (Get(final_state, "iterations", 0) = 0 <=> refiner_runs = 0))

\* the part of C2 that the code keeps: the graph's counter counts refiner runs
C2_GraphCounter == state.iterations = refiner_runs

(***************************************************************************)
(* C3  Termination: when every stage call returns, every run of            *)
(* execute_analysis returns, whatever the critique model answers.          *)
(***************************************************************************)
C3_Termination == <>(pc = "done")

\* a run that went through every allowed refinement and then returned
C3_Witness ==
    /\ pc = "done"
    /\ last_node = "formatter"
    /\ refiner_runs = MaxIterationsBound

C5_FailOpenCritique ==
    [][(CriticStep /\ last_llm' # NoCall /\ CritiqueUnusable(last_llm')) =>
            /\ CritiqueDecision(state'.critique) = "PASS"
            /\ pc' = "formatter"]_vars

\* the critique call raised while a refinement was still allowed
C5_Witness ==
    /\ last_node = "critic"
    /\ last_llm = LLMRaise
    /\ state.iterations < MaxIterations
    /\ CritiqueDecision(state.critique) = "PASS"
    /\ pc = "formatter"

(***************************************************************************)
(* C6  Short-circuit reject: when the report is absent or shorter than 500 *)
(* the critic stores a FAIL whose text says the report is too short, makes *)
(* no model call, and the edge reads it as a failure (the refiner is next  *)
(* while iterations < max_iterations).                                     *)
(***************************************************************************)
C6_ShortCircuitReject ==
    [][(CriticStep /\ ShortReport(state.markdown_report)) =>
            /\ CritiqueDecision(state'.critique) = "FAIL"
            /\ Contains(StrOf(state'.critique), "too short")
            /\ last_llm' = NoCall
            /\ llm_calls' = llm_calls
            /\ (state'.iterations < MaxIterations => pc' = "refiner")]_vars

\* a generated report one character short of the minimum was rejected
C6_Witness ==
    /\ last_node = "critic"
    /\ pc = "refiner"
    /\ state.markdown_report = Text("generated", MIN_REPORT_LENGTH - 1)
    /\ state.critique = PyStr(TOO_SHORT_CRITIQUE)
    /\ llm_calls["critique"] = 0

(***************************************************************************)
(* C7  Fallback bypass: when the collector reported fallback_used = true   *)
(* and the report has at least 500 characters, the critic stores PASS      *)
(* without a model call and the formatter is next, not the refiner.        *)
(***************************************************************************)
C7_FallbackBypass ==
    [][(/\ CriticStep
        /\ Get(state, "fallback_used", FALSE)
        /\ ~ShortReport(state.markdown_report)) =>
            /\ CritiqueDecision(state'.critique) = "PASS"
            /\ last_llm' = NoCall
            /\ llm_calls' = llm_calls
            /\ pc' = "formatter"]_vars

\* the bypass, not the safety valve, sent a fallback run to the formatter
C7_Witness ==
    /\ last_node = "critic"
    /\ pc = "formatter"
    /\ Get(state, "fallback_used", FALSE)
    /\ ~ShortReport(state.markdown_report)
    /\ state.iterations < MaxIterations
    /\ last_llm = NoCall

(***************************************************************************)
(* C8  Degrade-not-crash: when every LLM call of the run failed,           *)
(* execute_analysis still returns a result, with a report that is a        *)
(* string and an error that is not None.                                   *)
(***************************************************************************)
C8_DegradeNotCrash ==
    (pc = "done" /\ llm_all_failed) =>
        /\ final_state # NotReturned
        /\ ReturnedReport.type = "str"
        /\ ReturnedError # None

\* a completed run whose generate, refine and format calls all failed
C8_Witness ==
    /\ pc = "done"
    /\ exc = None
    /\ llm_all_failed
    /\ llm_calls["generate"] = 1
    /\ llm_calls["refine"] >= 1
    /\ llm_calls["format"] = 1

(***************************************************************************)
(* C9  Top-level failure policy: an exception that leaves the graph is     *)
(* handled by the except branch of execute_analysis, which returns a       *)
(* result whose error is a non-empty string and whose report is the        *)
(* synthetic error report.                                                 *)
(***************************************************************************)
C9_TopLevelFailurePolicy ==
    /\ (exc # None => pc \in {"except", "done"})
    /\ (pc = "done" => final_state # NotReturned)
    /\ (pc = "done" /\ exc # None) =>
          /\ Truthy(ReturnedError)
          /\ Get(ReturnedReport, "origin", "") = "error_report"

\* the graph failed after a refinement and the caller got the error report
C9_Witness ==
    /\ pc = "done"
    /\ exc # None
    /\ refiner_runs >= 1
    /\ Get(ReturnedReport, "origin", "") = "error_report"

(***************************************************************************)
(* C10 Report availability: once the analyzer has run the report is a      *)
(* non-empty string (the placeholder report when generation failed), and   *)
(* every returned result carries a non-empty report string, the catch-all  *)
(* result included.                                                        *)
(***************************************************************************)
C10_ReportAvailable ==
    /\ (llm_calls["generate"] > 0 => Truthy(state.markdown_report))
    /\ (last_node = "analyzer" /\ LLMFailed(last_llm)) =>
          state.markdown_report = _generate_fallback_report(state.sector, state.country)
    /\ (pc = "done" => Truthy(ReturnedReport))

\* generation failed and the placeholder report reached the caller
C10_Witness ==
    /\ pc = "done"
    /\ Get(ReturnedReport, "origin", "") = "fallback_report"

(***************************************************************************)
(* Vocabulary of the properties on the trace.                              *)
(***************************************************************************)
\* the nodes that ran, in order
TraceNodes == [i \in 1..Len(trace) |-> trace[i].node]

\* this step is a run of a node
NodeStep == trace' # trace

\* the outside call of the node that ran in this step failed: the collection
\* raised, or the LLM call raised or came back empty
FailedStep ==
    /\ NodeStep
    /\ \/ trace'[Len(trace')].outcome = "failed"
       \/ last_llm' # NoCall /\ LLMFailed(last_llm')

\* a returned run of the graph in which the collector brought results, the
\* generate call brought a draft, the critic's first critique was not a pass
\* and its second critique, if the critic ran again, was a pass
EndToEndCase ==
    /\ pc = "done"
    /\ exc = None
    /\ trace[1].outcome = "ok"
    /\ Get(final_state, "fallback_used", TRUE) = FALSE
    /\ trace[2].outcome = "ok"
    /\ trace[3].outcome = "fail"
    /\ (Len(trace) >= 5 => trace[5].outcome = "pass")

C18_ErrorRecording ==
    [][FailedStep =>
            /\ state'.error # None
            /\ pc' \in NodeNames \cup {"done"}]_vars


(***************************************************************************)
(* The collector's output.                                                 *)
(***************************************************************************)
\* the retained results of the returned dict
Retained == data.search_results.items

\* the urls of a sequence of entries
Urls(entries) == {entries[n].url : n \in DOMAIN entries}

\* C19: when collect_sector_data returns, the retained results are the top 8
\* of the collected ones by priority score (none left out scores higher than
\* one retained), the quality tier is high from 5 retained results, moderate
\* from 3 and low below, fallback_used is true exactly when no result
\* survived, and exactly then the context for the LLM is the fallback context
C19_CollectorShape ==
    data # None =>
        /\ Len(Retained) = Min(Len(all_results), TOP_RESULTS_LIMIT)
        /\ \A n \in DOMAIN Retained : \E m \in DOMAIN all_results : Retained[n] = all_results[m]
        /\ Cardinality(Urls(Retained)) = Len(Retained)
        /\ \A m \in DOMAIN all_results :
              all_results[m].url \notin Urls(Retained) =>
                  \A n \in DOMAIN Retained : all_results[m].priority <= Retained[n].priority
        /\ data.total_results = Len(Retained)
        /\ data.data_quality = (IF Len(Retained) >= 5 THEN "high"
                                ELSE IF Len(Retained) >= 3 THEN "moderate" ELSE "low")
        /\ data.fallback_used = (Len(Retained) = 0)
        /\ (data.raw_data.origin = "fallback_context") = (Len(Retained) = 0)
        /\ data.raw_data.origin = "articles" =>
              /\ Len(data.raw_data.articles) = Len(Retained)
              /\ \A n \in DOMAIN Retained :
                    /\ data.raw_data.articles[n].url = Retained[n].url
                    /\ data.raw_data.articles[n].content = Retained[n].snippet

\* nine distinct results were collected and the cut left one of them out
C19_Witness ==
    /\ data # None
    /\ Len(all_results) = TOP_RESULTS_LIMIT + 1
    /\ Len(Retained) = TOP_RESULTS_LIMIT
    /\ data.data_quality = "high"

(***************************************************************************)
(* Duplicates.                                                             *)
(***************************************************************************)
\* s[lo-1:hi] without its punctuation: the word characters and the white space
RECURSIVE PunctuationStrippedRange(_, _, _)
PunctuationStrippedRange(s, lo, hi) ==
    IF lo > hi THEN ""
    ELSE IF lo = hi
    THEN With(SubSeq(s, lo, lo), LAMBDA c :
             IF c \in WordChars \/ IsSpace(c) THEN c ELSE "")
    ELSE With((lo + hi) \div 2, LAMBDA mid :
             PunctuationStrippedRange(s, lo, mid) \o PunctuationStrippedRange(s, mid + 1, hi))

\* the body of a search result after case-folding and punctuation stripping
FoldedBody(result) ==
    With(Lower(Get(result, "body", "")), LAMBDA low :
        PunctuationStrippedRange(low, 1, Len(low)))

\* the content hash the loop computes for a search result
HashedBody(result) == _generate_content_hash(_clean_text(Get(result, "body", "")))

\* the entries that come from search results of the class of encountered[i],
\* forms being the normal forms of the encountered results, in order
FromClass(entries, forms, i) ==
    {n \in DOMAIN entries :
        \E j \in DOMAIN encountered : forms[j] = forms[i] /\ encountered[j].href = entries[n].url}

\* of each class of search results at most one entry is retained, in the
\* collected results, in the returned results and in the context for the
\* LLM, and it comes from the first result of the class
OneEntryPerClass(forms) ==
    \A i \in DOMAIN encountered :
        \E first \in {Least({j \in DOMAIN encountered : forms[j] = forms[i]})} :
            /\ Cardinality(FromClass(all_results, forms, i)) <= 1
            /\ \A n \in FromClass(all_results, forms, i) :
                  all_results[n].url = encountered[first].href
            /\ data # None =>
                  /\ Cardinality(FromClass(Retained, forms, i)) <= 1
                  /\ \A n \in FromClass(Retained, forms, i) :
                        Retained[n].url = encountered[first].href
                  /\ data.raw_data.origin = "articles" =>
                        /\ Cardinality(FromClass(data.raw_data.articles, forms, i)) <= 1
                        /\ \A n \in FromClass(data.raw_data.articles, forms, i) :
                              data.raw_data.articles[n].url = encountered[first].href

\* C20: within one collection, search results whose cleaned bodies (white
\* space collapsed, noise phrases and bracketed text removed) agree on the
\* first 100 characters left after lower-casing and removing every non-word
\* character contribute at most one entry to the retained results and to the
\* context for the LLM: the first one encountered is collected, the later
\* ones are skipped
C20_Dedup ==
    \E forms \in {[j \in DOMAIN encountered |-> HashedBody(encountered[j])]} :
        /\ OneEntryPerClass(forms)
        /\ \A i \in DOMAIN encountered : FromClass(all_results, forms, i) # {}

\* C20 as stated: search results whose bodies are identical after
\* case-folding and punctuation stripping contribute only one entry, the
\* first one encountered
C20_Original ==
    \E forms \in {[j \in DOMAIN encountered |-> FoldedBody(encountered[j])]} :
        OneEntryPerClass(forms)

\* a result was skipped as the duplicate of an earlier one found under
\* another url, and the earlier one is among the returned results
C20_Witness ==
    /\ data # None
    /\ \E i, j \in DOMAIN encountered :
          /\ i < j
          /\ encountered[i].href # encountered[j].href
          /\ HashedBody(encountered[i]) = HashedBody(encountered[j])
          /\ encountered[i].href \in Urls(Retained)
          /\ encountered[j].href \notin Urls(Retained)


(***************************************************************************)
(* The rate limiter's windows.                                             *)
(***************************************************************************)
\* check_rate_limit has just returned
JustChecked == last_call.op = "check_rate_limit" /\ last_call.at = now

\* the call that has just returned was rejected for the per-minute limit
MinuteRejected ==
    /\ JustChecked
    /\ ~last_call.allowed
    /\ last_call.message.text = "Rate limit exceeded. Try again in {} seconds."

\* the timestamps of a window that are less than, or at most, span old
Younger(q, span) == {i \in DOMAIN q : now - q[i] < span}
NotOlder(q, span) == {i \in DOMAIN q : now - q[i] <= span}

\* C12: with requests_per_minute = 5, a call is rejected for the per-minute
\* limit only when 5 requests were admitted within the last 60 seconds (so 5
\* calls within 60 seconds are all allowed and, once the window has elapsed,
\* calls are allowed again), an admitted request is never the 6th within 60
\* seconds, and a rejection carries a positive wait-time estimate
C12_RateLimiterWindows ==
    (limits.requests_per_minute = 5 /\ JustChecked) =>
        /\ last_call.allowed =>
              Cardinality(Younger(minute_requests[last_call.user_id], MINUTE)) <= 5
        /\ MinuteRejected =>
              /\ Cardinality(NotOlder(minute_requests[last_call.user_id], MINUTE)) >= 5
              /\ last_call.message.amount > 0


(***************************************************************************)
(* What the client receives.                                               *)
(***************************************************************************)
\* the request has been answered
Answered == api_pc = "done"

\* the client received an HTTP error with this status code
HttpError(status_code) ==
    Answered /\ response.raised /\ response.status_code = status_code

\* the client received the structured result
StructuredResult == Answered /\ ~response.raised /\ response.status_code = 200

\* the request carries a key the store does not know
BadCredential ==
    IF request.api_key = NoKey THEN FALSE ELSE request.api_key.value \notin DOMAIN keys

\* C11: every analyze request ends in exactly one of: a full structured
\* result; a degraded result whose error field is populated; HTTP 429 with
\* a wait-time message; HTTP 401 for a bad (not missing) credential; and
\* when the catch-all of execute_analysis produced the synthetic error
\* report, the caller still receives a structured result
C11_ClientOutcome ==
    (Answered /\ request.endpoint = "analyze") =>
        /\ \/ StructuredResult /\ ReturnedError = None
           \/ /\ StructuredResult
              /\ ReturnedError # None
              /\ "error" \in DOMAIN response.body
              /\ response.body.error # None
           \/ HttpError(429) /\ "amount" \in DOMAIN response.detail
           \/ HttpError(401) /\ BadCredential
        /\ exc # None => StructuredResult

\* C14: check_rate_limit is evaluated before execute_analysis: the
\* orchestrator is called only right after a check that admitted the
\* request, and a request the check rejected never reaches the orchestrator
\* and is answered with 429, on the analyze and on the download endpoint
C14_RejectionPrecedesPipeline ==
    /\ \A i \in DOMAIN events :
          events[i] = "execute_analysis" => i > 1 /\ events[i - 1] = "check_rate_limit"
    /\ pc # "idle" => \E i \in DOMAIN events : events[i] = "execute_analysis"
    /\ api_pc = "pipeline" => last_call.op = "check_rate_limit" /\ last_call.allowed
    /\ (last_call.op = "check_rate_limit" /\ ~last_call.allowed) =>
          /\ HttpError(429)
          /\ response.detail = last_call.message
          /\ pc = "idle"
          /\ final_state = NotReturned
          /\ \A i \in DOMAIN events : events[i] # "execute_analysis"

\* a download request was rejected by the rate limiter
C14_Witness ==
    /\ HttpError(429)
    /\ request.endpoint = "download"
    /\ events = <<"get_current_user", "check_rate_limit">>

\* the windows are as they were when the request arrived
WindowsUntouched ==
    \E n \in RecordedAtStart :
        /\ minute_requests = [u \in UserIds |-> RecordedAtZero(n)]
        /\ hour_requests = [u \in UserIds |-> RecordedAtZero(n)]

\* C15: a request with a key the store does not know is answered with 401
\* by the authentication dependency alone: the rate limiter is not called,
\* no timestamp is recorded and execute_analysis is not started; a request
\* with no key is not rejected for it and runs as guest
C15_AuthenticationOrdering ==
    /\ (BadCredential /\ api_pc # "auth") =>
          /\ HttpError(401)
          /\ events = <<"get_current_user">>
          /\ last_call = NoCallYet
          /\ WindowsUntouched
          /\ pc = "idle"
          /\ final_state = NotReturned
    /\ (request.api_key = NoKey /\ api_pc # "auth") =>
          /\ current_user = PyStr("guest")
          /\ ~HttpError(401)

\* a request with an unknown key was answered with 401, the windows full as
\* they were
C15_Witness ==
    /\ BadCredential
    /\ HttpError(401)
    /\ Len(minute_requests["guest"]) = DEFAULT_REQUESTS_PER_MINUTE


(***************************************************************************)
(* Requests in flight together.                                            *)
(***************************************************************************)
\* request t is between the pruning and the end of its check_rate_limit call
InCheck(t) == task_pc[t] \in {"pruned", "record", "release"}

\* request t has been through the appends of check_rate_limit
Recorded(t) == admitted[t] = "yes" /\ task_pc[t] # "record"

\* C13: the pruning, the test and the appends of a check_rate_limit call
\* are atomic with respect to the other requests, their
\* get_remaining_requests calls included: until the call's appends the
\* windows of the user are as its pruning left them, an admitted call
\* leaves them with exactly its one timestamp added to both, a rejected call
\* leaves them as they were, no window ever holds more than its limit, and
\* two requests of a user that read the same clock are not both admitted on
\* the same window contents
C13_Atomicity ==
    /\ \A t \in Tasks :
          /\ task_pc[t] \in {"pruned", "record"} => WindowsOf(t) = basis[t]
          /\ (task_pc[t] = "release" /\ admitted[t] = "yes") =>
                WindowsOf(t) = <<Append(basis[t][1], task_now[t]),
                                 Append(basis[t][2], task_now[t])>>
          /\ (task_pc[t] = "release" /\ admitted[t] = "no") => WindowsOf(t) = basis[t]
          /\ InCheck(t) => lock = t /\ running = t
    /\ \A u \in UserIds :
          /\ Len(minute_requests[u]) <= limits.requests_per_minute
          /\ Len(hour_requests[u]) <= limits.requests_per_hour
    /\ \A t, o \in Tasks :
          (/\ t # o
           /\ task_user[t] = task_user[o]
           /\ Recorded(t) /\ Recorded(o)
           /\ task_now[t] = task_now[o]) => basis[t] # basis[o]

\* two requests of one user arrived with one slot left: one was admitted and
\* recorded, the other rejected, and the admitted one has answered after its
\* get_remaining_requests call
C13_Witness ==
    /\ task_user[2] = "guest"
    /\ admitted[1] = "yes"
    /\ admitted[2] = "no"
    /\ task_now[1] = task_now[2]
    /\ Len(minute_requests["guest"]) = limits.requests_per_minute
    /\ task_pc[1] = "done"
    /\ task_pc[2] = "done"

\* request t is inside a stage's outbound network call or inside the
\* collector's delay between two queries
InOutboundCallOrDelay(t) == task_pc[t] \in {"searching", "sleeping", "llm_call"}

\* C17: while one request is inside an outbound network call or the delay
\* between two queries, the collector's included, every other request that
\* has not been answered can take a step
C17_NonBlocking ==
    \A t, o \in Tasks :
        (t # o /\ InOutboundCallOrDelay(t) /\ task_pc[o] # "done") => ENABLED TaskStep(o)


(***************************************************************************)
(* The critique the critic leaves.                                         *)
(***************************************************************************)
\* the fixed shape {decision, reason} with decision PASS or FAIL
FixedShape(c) ==
    /\ IsCritiqueObject(c)
    /\ DOMAIN c = {"type", "decision", "reason"}
    /\ c.decision.value \in {"PASS", "FAIL"}

\* C21: every run of the critic writes the critique field, and the critique
\* it leaves (fast-path FAIL, fast-path PASS, model answer or error fallback)
\* has the fixed shape {decision, reason} with decision PASS or FAIL
C21_CritiqueShape ==
    [][CriticStep =>
            /\ "critique" \in DOMAIN state'
            /\ FixedShape(state'.critique)]_vars


\* the state the critic is about to read says the collector fell back
FallbackUsed == Get(state, "fallback_used", FALSE) = TRUE

\* C22: the critic checks the length first, then the fallback bypass, then
\* calls the model.  A short report with fallback_used true gets the FAIL of
\* the length check without a model call, and the run goes to the refiner
\* while iterations < max_iterations; a long enough report with
\* fallback_used true gets the bypass PASS without a model call; the model
\* is called only when neither check applies
C22_FastPathOrdering ==
    [][CriticStep =>
            /\ ShortReport(state.markdown_report) =>
                  /\ state'.critique = PyStr(TOO_SHORT_CRITIQUE)
                  /\ CritiqueDecision(state'.critique) = "FAIL"
                  /\ last_llm' = NoCall
                  /\ llm_calls' = llm_calls
                  /\ (state.iterations < MaxIterations => pc' = "refiner")
            /\ (~ShortReport(state.markdown_report) /\ FallbackUsed) =>
                  /\ state'.critique = PyStr("PASS")
                  /\ last_llm' = NoCall
                  /\ llm_calls' = llm_calls
            /\ (~ShortReport(state.markdown_report) /\ ~FallbackUsed) =>
                  /\ last_llm' # NoCall
                  /\ llm_calls' = Called("critique")]_vars

\* a degraded-data run with a short report has entered the refiner on the
\* FAIL of the length check
C22_Witness ==
    /\ pc = "refiner"
    /\ last_node = "critic"
    /\ FallbackUsed
    /\ ShortReport(state.markdown_report)
    /\ state.critique = PyStr(TOO_SHORT_CRITIQUE)
    /\ state.iterations < MaxIterations
    /\ llm_calls["critique"] = 0


(***************************************************************************)
(* The order of the nodes.                                                 *)
(***************************************************************************)
\* how many times a node is in a sequence of node names
Runs(nodes, node) == Cardinality({i \in DOMAIN nodes : nodes[i] = node})

\* collector, analyzer, critic, (refiner, critic)*, as far as it got
PipelinePrefix(nodes) ==
    \A i \in DOMAIN nodes :
        nodes[i] = (IF i = 1 THEN "collector"
                    ELSE IF i = 2 THEN "analyzer"
                    ELSE IF i % 2 = 1 THEN "critic" ELSE "refiner")

\* collector, analyzer, critic, (refiner, critic)*, formatter
PipelineOrder(nodes) ==
    /\ Len(nodes) >= 4
    /\ Len(nodes) % 2 = 0
    /\ nodes[Len(nodes)] = "formatter"
    /\ PipelinePrefix(SubSeq(nodes, 1, Len(nodes) - 1))

\* C23: in every run that does not come to the catch-all, the nodes that ran
\* are collector, analyzer, critic, (refiner, critic)*, formatter in this
\* order, one at a time; the critic ran once more than the refiner, and the
\* collector, the analyzer and the formatter ran exactly once each
C23_StageOrdering ==
    /\ (pc \in NodeNames /\ exc = None) =>
          /\ PipelinePrefix(TraceNodes)
          /\ Len(trace) = 0 => pc = "collector"
          /\ Len(trace) = 1 => pc = "analyzer"
          /\ (Len(trace) >= 2 /\ Len(trace) % 2 = 0) => pc = "critic"
          /\ (Len(trace) >= 3 /\ Len(trace) % 2 = 1) => pc \in {"refiner", "formatter"}
    /\ (pc = "done" /\ exc = None) =>
          /\ PipelineOrder(TraceNodes)
          /\ Runs(TraceNodes, "critic") = Runs(TraceNodes, "refiner") + 1
          /\ Runs(TraceNodes, "refiner") = refiner_runs
          /\ Runs(TraceNodes, "collector") = 1
          /\ Runs(TraceNodes, "analyzer") = 1
          /\ Runs(TraceNodes, "formatter") = 1

\* a returned run with two refinements: eight nodes ran
C23_Witness ==
    /\ pc = "done"
    /\ exc = None
    /\ refiner_runs = 2
    /\ TraceNodes = <<"collector", "analyzer", "critic", "refiner", "critic",
                      "refiner", "critic", "formatter">>


(***************************************************************************)
(* The LLM calls of one request.                                           *)
(***************************************************************************)
\* the LLM calls made so far
TotalCalls ==
    llm_calls["generate"] + llm_calls["critique"] + llm_calls["refine"] + llm_calls["format"]

\* the calls are within the bound that a ceiling of c refinements gives
WithinCallBound(c) ==
    /\ llm_calls["generate"] <= 1
    /\ llm_calls["critique"] <= c + 1
    /\ llm_calls["refine"] <= c
    /\ llm_calls["format"] <= 1
    /\ TotalCalls <= 2 * c + 3

\* C24 LLM call bound, as amended: whatever the model answers, one request
\* makes at most 1 generate call, max(0, max_iterations) + 1 critique calls,
\* max(0, max_iterations) refine calls and 1 format call, at most
\* 2 * max(0, max_iterations) + 3 in all (5 for the default ceiling of 1)
C24_LLMCallBound ==
    /\ WithinCallBound(IF MaxIterations < 0 THEN 0 ELSE MaxIterations)
    /\ MaxIterations = DEFAULT_MAX_REFINEMENT_ITERATIONS => TotalCalls <= 5

\* C24 as stated, for every configured max_iterations, on the calls of a
\* request that has returned from the graph
C24_Original == (pc = "done" /\ exc = None) => WithinCallBound(MaxIterations)

\* a returned run under the default ceiling that made all five calls
C24_Witness ==
    /\ pc = "done"
    /\ exc = None
    /\ MaxIterations = DEFAULT_MAX_REFINEMENT_ITERATIONS
    /\ llm_calls = [generate |-> 1, critique |-> 2, refine |-> 1, format |-> 1]


(***************************************************************************)
(* What the nodes write.                                                   *)
(***************************************************************************)
\* the state with one of its fields replaced
Updated(s, k, v) == [s EXCEPT ![k] = v]

\* C25 Refiner no-regression: when the refine call raises or returns empty
\* content, the refiner leaves the report exactly as it was and changes only
\* iterations; when the call returns text, the report becomes that text (and
\* nothing else changes but iterations)
C25_RefinerNoRegression ==
    [][RefinerStep =>
            IF LLMFailed(last_llm')
            THEN state' = Updated(state, "iterations", state.iterations + 1)
            ELSE /\ state'.markdown_report = last_llm'.content
                 /\ state' = Updated(Updated(state, "markdown_report", last_llm'.content),
                                     "iterations", state.iterations + 1)]_vars

\* the refiner has run on a generated report and its refine call raised: the
\* generated report is still there
C25_Witness ==
    /\ last_node = "refiner"
    /\ last_llm = LLMRaise
    /\ state.iterations = 1
    /\ Get(state.markdown_report, "origin", "") = "generated"


\* the fields the collector sets
COLLECTOR_FIELDS == {"raw_data", "search_results", "data_quality", "fallback_used"}

\* field k is in s2 as it is in s1: absent from both, or the same in both
SameField(s1, s2, k) ==
    /\ (k \in DOMAIN s1) = (k \in DOMAIN s2)
    /\ (k \in DOMAIN s1 => s1[k] = s2[k])

\* this step is a run of a node
NodeRuns == pc \in NodeNames /\ last_node' = pc

\* C26 Frame conditions: sector and country never change after the state is
\* initialised, in the workflow state and in the returned result; raw_data,
\* search_results, data_quality and fallback_used are written by the
\* collector only: the analyzer, the critic, the refiner and the formatter
\* leave them as they were
C26_FrameConditions ==
    [][/\ SameField(state, state', "sector")
       /\ SameField(state, state', "country")
       /\ (pc' = "done" => /\ final_state'.sector = state.sector
                           /\ final_state'.country = state.country)
       /\ (NodeRuns /\ pc # "collector") =>
             \A k \in COLLECTOR_FIELDS : SameField(state, state', k)]_vars

\* a returned run with collected results whose analyzer, critic, refiner and
\* formatter all ran, the generate call having failed
C26_Witness ==
    /\ pc = "done"
    /\ exc = None
    /\ refiner_runs >= 1
    /\ llm_calls["generate"] = 1
    /\ final_state.error = PyStr("AI analysis returned empty response")
    /\ final_state.fallback_used = FALSE
    /\ Len(final_state.search_results.items) = TOP_RESULTS_LIMIT
    /\ final_state.raw_data.origin = "articles"


(***************************************************************************)
(* The structured summary.                                                 *)
(***************************************************************************)
\* this step is a run of the formatter node
FormatterStep == pc = "formatter" /\ last_node' = "formatter"

\* the format call raised, came back empty, or brought content that is not
\* JSON once the code fence is off
FormatUnusable(resp) ==
    \/ resp.kind \in {"raise", "no_content"}
    \/ /\ resp.kind = "content"
       /\ ~JsonLoads(StripCodeFence(Strip(resp.content.value))).ok

\* the all-null summary
ALL_NULL_SUMMARY ==
    [type |-> "dict", market_size |-> None, growth_cagr |-> None,
     top_recommendations |-> PyList(<<>>)]

\* C27 Formatter fail-safe: when the format call raises, returns empty
\* content or returns content that cannot be parsed, the formatter does not
\* raise (the run returns from the graph) and the structured summary is
\* {market_size: null, growth_cagr: null, top_recommendations: []}
C27_FormatterFailSafe ==
    [][(FormatterStep /\ FormatUnusable(last_llm')) =>
            /\ pc' = "done"
            /\ exc' = None
            /\ state'.json_summary = ALL_NULL_SUMMARY
            /\ final_state'.json_summary = ALL_NULL_SUMMARY]_vars

\* a run returned after a format call whose content was not JSON
C27_Witness ==
    /\ pc = "done"
    /\ exc = None
    /\ last_node = "formatter"
    /\ last_llm = LLMContent(PyStr(JSON_GARBAGE))
    /\ final_state.json_summary = ALL_NULL_SUMMARY


\* the formatter has run
FormatterRan == Runs(TraceNodes, "formatter") >= 1

\* C28 The structured summary is written once, at the end: json_summary is
\* None in every state before the formatter runs (and in a result returned
\* without the formatter having run); no node but the formatter writes it;
\* the formatter runs once, right after the last run of the critic, with
\* nothing running after it; and the report it works on is the one the last
\* write of the analyzer or the refiner left: the critic and the formatter
\* leave the report as it was
C28_SummaryWrittenOnce ==
    [][/\ ~FormatterRan => state.json_summary = None
       /\ ~FormatterRan' =>
             /\ state'.json_summary = None
             /\ (pc' = "done" => final_state'.json_summary = None)
       /\ (NodeRuns /\ pc # "formatter") => SameField(state, state', "json_summary")
       /\ FormatterStep =>
             /\ ~FormatterRan
             /\ last_node = "critic"
             /\ trace[Len(trace)].node = "critic"
             /\ pc' = "done"
             /\ final_state' = state'
       /\ (CriticStep \/ FormatterStep) => SameField(state, state', "markdown_report")]_vars

\* a returned run in which the refiner's text went through the last critic
\* run to the formatter, which wrote the summary
C28_Witness ==
    /\ pc = "done"
    /\ exc = None
    /\ refiner_runs = 1
    /\ FormatterRan
    /\ final_state.markdown_report = Text("refined", MIN_REPORT_LENGTH)
    /\ final_state.json_summary = JsonLoads(JSON_SUMMARY).value


(***************************************************************************)
(* Failed searches.                                                        *)
(***************************************************************************)
\* this step is the last attempt of a query raising: the query is skipped
QuerySkipped == query_outcomes' = Append(query_outcomes, "skipped")

\* every search result the loop went through has its entry, or the entry of
\* an earlier result with the same content hash
ResultsKept ==
    \E forms \in {[j \in DOMAIN encountered |-> HashedBody(encountered[j])]} :
        \A i \in DOMAIN encountered : FromClass(all_results, forms, i) # {}

\* every query so far has had its turn, the call returns once the loop is
\* over, and what it returns has the results of the queries that returned
FailuresTolerated ==
    /\ Len(query_outcomes) = idx - 1
    /\ (idx = QUERY_COUNT + 1 /\ data = None) => ENABLED CollectReturn
    /\ data # None =>
          /\ Len(query_outcomes) = QUERY_COUNT
          /\ ResultsKept
          /\ (\A q \in 1..QUERY_COUNT : query_outcomes[q] = "skipped") =>
                /\ data.total_results = 0
                /\ Retained = <<>>
                /\ data.fallback_used = TRUE

\* C29 Collector partial-failure tolerance: when the search of a query fails
\* after its retries, the query is skipped: the loop goes on to the next
\* query with the results collected so far untouched, every query is run,
\* the results of the queries that returned are kept, the call returns
\* whatever failed, and when all queries fail it returns zero results with
\* fallback_used true
C29_PartialFailureTolerance ==
    [][/\ QuerySkipped =>
             /\ idx' = idx + 1
             /\ all_results' = all_results
             /\ seen_content' = seen_content
             /\ encountered' = encountered
             /\ data' = None
       /\ FailuresTolerated']_vars

\* the call returned with the second query skipped and the six results of
\* the first and the third query retained
C29_Witness ==
    /\ data # None
    /\ query_outcomes = <<"returned", "skipped", "returned">>
    /\ Len(encountered) = 2 * MAX_RESULTS_PER_QUERY
    /\ Len(Retained) = 2 * MAX_RESULTS_PER_QUERY
    /\ data.fallback_used = FALSE


\* all the attempts raised
AllRaised(attempts) == \A n \in DOMAIN attempts : attempts[n].outcome = "raised"

\* C30 Search retry/fallback protocol, on the attempts of each query: GNews,
\* the primary backend, is tried only when configured, then first, once, and
\* never again; DuckDuckGo, the secondary, is tried only when GNews is not
\* configured or has raised; it is tried at most STOP_AFTER_ATTEMPT = 2
\* times, each time after the attempt before raised; and when all its
\* attempts raised the exception leaves the search and the query is skipped
C30_SearchProtocol ==
    /\ \A n \in DOMAIN tries :
          /\ tries[n].query = tries[1].query
          /\ tries[n].backend = "gnews" => (use_gnews /\ n = 1)
          /\ tries[n].backend = "duckduckgo" =>
                \/ ~use_gnews
                \/ n > 1 /\ tries[1].backend = "gnews" /\ tries[1].outcome = "raised"
          /\ n > 1 => tries[n - 1].outcome = "raised"
    /\ AttemptsOn(tries, "gnews") <= 1
    /\ AttemptsOn(tries, "duckduckgo") <= STOP_AFTER_ATTEMPT
    /\ (use_gnews /\ tries # <<>>) => tries[1].backend = "gnews"
    /\ tries # <<>> =>
          IF AllRaised(tries)
          THEN IF AttemptsOn(tries, "duckduckgo") = STOP_AFTER_ATTEMPT
               THEN /\ idx > tries[1].query
                    /\ query_outcomes[tries[1].query] = "skipped"
               ELSE idx = tries[1].query
          ELSE /\ idx > tries[1].query
               /\ query_outcomes[tries[1].query] = "returned"

\* GNews raised, DuckDuckGo raised twice, and the query was skipped
C30_Witness ==
    /\ use_gnews
    /\ Len(tries) = 3
    /\ tries[1].backend = "gnews"
    /\ tries[2].backend = "duckduckgo"
    /\ tries[3].backend = "duckduckgo"
    /\ AllRaised(tries)
    /\ query_outcomes[tries[1].query] = "skipped"


(***************************************************************************)
(* The wait a rejection reports.                                           *)
(***************************************************************************)
\* the call that has just returned was rejected for the per-hour limit
HourRejected ==
    /\ JustChecked
    /\ ~last_call.allowed
    /\ last_call.message.text = "Hourly rate limit exceeded. Try again in {} minutes."

\* the window length minus the age of the oldest timestamp of a window, in ticks
WaitTicks(q, span) == span - (now - q[1])

\* C31 Retry-after computation: a rejection for the per-minute limit reports
\* 60 s minus the age of the oldest timestamp of the minute window, in whole
\* seconds; one for the per-hour limit reports 3600 s minus the age of the
\* oldest timestamp of the hour window, in whole minutes; the wait lies
\* between 0 and the window length; and the per-minute limit is checked
\* first: a call that finds both windows full reports the per-minute wait
C31_RetryAfter ==
    JustChecked =>
        \E u \in {last_call.user_id} :
            /\ MinuteRejected =>
                  /\ Len(minute_requests[u]) >= limits.requests_per_minute
                  /\ WaitTicks(minute_requests[u], MINUTE) \in 0..MINUTE
                  /\ last_call.message.amount =
                         WaitTicks(minute_requests[u], MINUTE) \div TicksPerSecond
                  /\ last_call.message.amount \in 0..SECONDS_PER_MINUTE
            /\ HourRejected =>
                  /\ Len(minute_requests[u]) < limits.requests_per_minute
                  /\ Len(hour_requests[u]) >= limits.requests_per_hour
                  /\ WaitTicks(hour_requests[u], HOUR) \in 0..HOUR
                  /\ last_call.message.amount =
                         WaitTicks(hour_requests[u], HOUR)
                             \div (TicksPerSecond * SECONDS_PER_MINUTE)
                  /\ last_call.message.amount * SECONDS_PER_MINUTE \in 0..SECONDS_PER_HOUR
            /\ ~last_call.allowed => (MinuteRejected \/ HourRejected)
            /\ (~last_call.allowed /\ Len(minute_requests[u]) >= limits.requests_per_minute)
                   => MinuteRejected

\* a call found both windows full, the oldest timestamps of the two being
\* different, and reported the wait of the minute window
C31_Witness ==
    /\ MinuteRejected
    /\ Len(minute_requests[last_call.user_id]) >= limits.requests_per_minute
    /\ Len(hour_requests[last_call.user_id]) >= limits.requests_per_hour
    /\ minute_requests[last_call.user_id][1] # hour_requests[last_call.user_id][1]
    /\ last_call.message.amount > 0


(***************************************************************************)
(* The admitted requests.                                                  *)
(***************************************************************************)
\* the requests of a user were admitted at non-decreasing times
InTimeOrder(q) == \A i \in 1..(Len(q) - 1) : q[i] <= q[i + 1]

\* no interval of length span, both ends included, holds more than limit of
\* the times of q, which are in order: the one that comes limit places after
\* another is more than span later
AtMostWithin(q, span, limit) ==
    \A i \in 1..(Len(q) - limit) : q[i + limit] > q[i] + span

\* C32 Sliding-window safety: for every user, whatever calls were made as
\* the clock went on, no interval of 60 seconds holds more than
\* requests_per_minute admitted requests and no interval of 3600 seconds
\* more than requests_per_hour
C32_SlidingWindowSafety ==
    \A u \in UserIds :
        /\ InTimeOrder(admissions[u])
        /\ AtMostWithin(admissions[u], MINUTE, limits.requests_per_minute)
        /\ AtMostWithin(admissions[u], HOUR, limits.requests_per_hour)

\* guest was admitted up to the per-minute limit twice within two minutes,
\* and is rejected once more
C32_Witness ==
    /\ limits = DefaultLimits
    /\ Len(admissions["guest"]) = 2 * DEFAULT_REQUESTS_PER_MINUTE
    /\ admissions["guest"][Len(admissions["guest"])] - admissions["guest"][1] < 2 * MINUTE
    /\ MinuteRejected


(***************************************************************************)
(* What a call of check_rate_limit records.                                *)
(***************************************************************************)
\* the step is a call of check_rate_limit for u
CheckedFor(u) == now' = now /\ JustChecked' /\ last_call'.user_id = u

\* the delays after which a later attempt is looked at
Delays == Advances \cup {0, MINUTE + 1}

\* a call for u made d ticks from now would be admitted, with the windows mr, hr
WouldAdmit(mr, hr, u, d) == check_rate_limit(limits, mr, hr, u, now + d).allowed

\* C33 Rejected checks record nothing: a rejected call, for either reason,
\* leaves both windows of the user as they were but for the expired entries,
\* records no admission, and does not change whether a later attempt is
\* admitted; an admitted call appends the time of the call to both windows
C33_RejectedRecordNothing ==
    [][\A u \in UserIds :
          CheckedFor(u) =>
              /\ ~last_call'.allowed =>
                    /\ minute_requests'[u] = PopOlder(minute_requests[u], now - MINUTE)
                    /\ hour_requests'[u] = PopOlder(hour_requests[u], now - HOUR)
                    /\ admissions' = admissions
                    /\ \A d \in Delays :
                          WouldAdmit(minute_requests', hour_requests', u, d)
                              = WouldAdmit(minute_requests, hour_requests, u, d)
              /\ last_call'.allowed =>
                    /\ minute_requests'[u] =
                          Append(PopOlder(minute_requests[u], now - MINUTE), now)
                    /\ hour_requests'[u] =
                          Append(PopOlder(hour_requests[u], now - HOUR), now)]_vars

\* guest, admitted up to the per-minute limit and again once the minute
\* window had elapsed, is rejected for the per-hour limit
C33_Witness ==
    /\ HourRejected
    /\ last_call.user_id = "guest"
    /\ Len(admissions["guest"]) = limits.requests_per_hour
    /\ admissions["guest"][limits.requests_per_minute] = 0
    /\ admissions["guest"][limits.requests_per_hour] = now
    /\ now > MINUTE


(***************************************************************************)
(* The shape of the windows.                                               *)
(***************************************************************************)
\* the deque q is the end of the deque r
IsSuffix(q, r) ==
    /\ Len(q) <= Len(r)
    /\ \A i \in DOMAIN q : q[i] = r[Len(r) - Len(q) + i]

\* get_remaining_requests has just returned
JustCounted == last_call.op = "get_remaining_requests" /\ last_call.at = now

\* C34 Rate-limiter state invariant: whatever calls of check_rate_limit and
\* get_remaining_requests were made, the minute window of every user holds
\* at most requests_per_minute timestamps and the hour window at most
\* requests_per_hour, both in non-decreasing order, the timestamps of the
\* minute window are the last ones of the hour window, and
\* get_remaining_requests returns the room left in each window, between 0
\* and the limit
C34_StateInvariant ==
    /\ \A u \in UserIds :
          /\ Len(minute_requests[u]) <= limits.requests_per_minute
          /\ Len(hour_requests[u]) <= limits.requests_per_hour
          /\ InTimeOrder(minute_requests[u])
          /\ InTimeOrder(hour_requests[u])
          /\ IsSuffix(minute_requests[u], hour_requests[u])
    /\ JustCounted =>
          /\ last_call.remaining.per_minute \in 0..limits.requests_per_minute
          /\ last_call.remaining.per_hour \in 0..limits.requests_per_hour
          /\ last_call.remaining.per_minute =
                limits.requests_per_minute - Len(minute_requests[last_call.user_id])
          /\ last_call.remaining.per_hour =
                limits.requests_per_hour - Len(hour_requests[last_call.user_id])

\* guest has no request left in the minute but some in the hour, and the
\* hour window holds timestamps that the minute window has lost
C34_Witness ==
    /\ JustCounted
    /\ last_call.user_id = "guest"
    /\ last_call.remaining.per_minute = 0
    /\ last_call.remaining.per_hour > 0
    /\ Len(hour_requests["guest"]) > Len(minute_requests["guest"])
    /\ hour_requests["guest"][1] < now - MINUTE


(***************************************************************************)
(* One quota per identity.                                                 *)
(***************************************************************************)
\* the step is a call of get_remaining_requests for u
CountedFor(u) == now' = now /\ JustCounted' /\ last_call'.user_id = u

\* the requests admitted for u and nothing of any other user
OnlyOf(u) == [v \in UserIds |-> IF v = u THEN admissions[u] ELSE <<>>]

\* C38 Per-user isolation: a call made for another identity changes neither
\* the windows of u nor what was admitted for u; what a call for u returns
\* and leaves in the windows of u is what the requests admitted for u alone
\* give; and a request with no credential and one with the key of guest
\* resolve to the same identity, hence to the same windows
C38_PerUserIsolation ==
    [][/\ get_current_user(keys, NoKey) = [raised |-> FALSE, username |-> "guest"]
       /\ get_current_user(keys, PyStr("guest-key-67890")) = get_current_user(keys, NoKey)
       /\ (now' = now /\ (JustChecked' \/ JustCounted')) =>
             \E u \in {last_call'.user_id} :
                 /\ \A v \in UserIds \ {u} :
                       /\ minute_requests'[v] = minute_requests[v]
                       /\ hour_requests'[v] = hour_requests[v]
                       /\ admissions'[v] = admissions[v]
                 /\ \E own \in {OnlyOf(u)} :
                       /\ CheckedFor(u) =>
                             \E r \in {check_rate_limit(limits, own, own, u, now)} :
                                 /\ last_call'.allowed = r.allowed
                                 /\ last_call'.message = r.message
                                 /\ minute_requests'[u] = r.minute_requests[u]
                                 /\ hour_requests'[u] = r.hour_requests[u]
                       /\ CountedFor(u) =>
                             \E r \in {get_remaining_requests(limits, own, own, u, now)} :
                                 /\ last_call'.remaining = r.remaining
                                 /\ minute_requests'[u] = r.minute_requests[u]
                                 /\ hour_requests'[u] = r.hour_requests[u]]_vars

\* demo is admitted, a minute later, while the minute window of guest is
\* full of requests that a call for guest would remove
C38_Witness ==
    /\ JustChecked
    /\ last_call.user_id = "demo"
    /\ last_call.allowed
    /\ Len(minute_requests["guest"]) = limits.requests_per_minute
    /\ minute_requests["guest"][1] < now - MINUTE


(***************************************************************************)
(* The error field.                                                        *)
(***************************************************************************)
\* the collector's collection or the analyzer's generate call has failed
ErrorWasSet ==
    \E i \in DOMAIN trace :
        trace[i].node \in {"collector", "analyzer"} /\ trace[i].outcome = "failed"

\* C35 Error is sticky: no node sets error back to None; once the collector
\* or the analyzer has set it, it is not None in the workflow state at any
\* later step nor in the returned result, whatever the refiner and the
\* critic do afterwards
C35_ErrorSticky ==
    [][/\ state.error # None => state'.error # None
       /\ ErrorWasSet' => state'.error # None
       /\ (pc' = "done" /\ ErrorWasSet') => final_state'.error # None]_vars

\* the generate call failed, a refiner run replaced the placeholder report
\* with a refined one, the critic then passed it, and the result returned by
\* the graph still carries the error
C35_Witness ==
    /\ pc = "done"
    /\ exc = None
    /\ ErrorWasSet
    /\ refiner_runs >= 1
    /\ Get(ReturnedReport, "origin", "") = "refined"
    /\ CritiqueDecision(final_state.critique) = "PASS"
    /\ ReturnedError # None


(***************************************************************************)
(* What the critic and its edge make of the model's decision.              *)
(***************************************************************************)
\* what json.loads makes of the content the critique call brought
Parsed(resp) == JsonLoads(Strip(resp.content.value))

\* the critique call of this step brought content that parses
ParseableCritique ==
    /\ CriticStep
    /\ last_llm' # NoCall
    /\ last_llm'.kind = "content"
    /\ Parsed(last_llm').ok

\* C36 Unrecognized decision handling: when the critique model returns a
\* parseable object whose decision is a string or is absent, the run goes to
\* the formatter when the decision is PASS in any case or absent, and to the
\* refiner for any other string while iterations < max_iterations; when what
\* it returns is not an object, or the decision is not a string, the critic
\* stores its fallback PASS and the run goes to the formatter
C36_UnrecognizedDecision ==
    [][ParseableCritique =>
          \E v \in {Parsed(last_llm').value} :
              IF v.type = "dict" /\ Get(v, "decision", PyStr("PASS")).type = "str"
              THEN \E d \in {Upper(Get(v, "decision", PyStr("PASS")).value)} :
                       /\ d = "PASS" => pc' = "formatter"
                       /\ (d # "PASS" /\ state.iterations < MaxIterations) =>
                             pc' = "refiner"
              ELSE /\ state'.critique = PassDict("Internal node error - defaulted to PASS.")
                   /\ pc' = "formatter"]_vars


(***************************************************************************)
(* What the catch-all returns.                                             *)
(***************************************************************************)
\* the fields of the initial state that the except branch does not assign
UNASSIGNED_FIELDS == DOMAIN initial_state("", "") \ {"error", "markdown_report"}

LastOn(k) ==
    IF \E i \in DOMAIN key_log : key_log[i].api_key = k
    THEN CHOOSE i \in DOMAIN key_log :
             /\ key_log[i].api_key = k
             /\ \A j \in DOMAIN key_log : key_log[j].api_key = k => j <= i
    ELSE 0

\* the user the calls made so far leave the key k with: the user it was last
\* issued to if it was not revoked since, the user the constructor gave it
\* if it was never named, None otherwise
Holder(k) ==
    With(LastOn(k), LAMBDA i :
        IF i = 0
        THEN IF k \in DOMAIN INITIAL_KEYS THEN PyStr(INITIAL_KEYS[k]) ELSE None
        ELSE IF key_log[i].op = "generate_key" THEN PyStr(key_log[i].user_id)
        ELSE None)

\* what verify_key and get_current_user answer for every key is what the
\* calls made so far say
RegistryAnswers ==
    \A k \in PresentedKeys :
        /\ verify_key(keys, k) = Holder(k)
        /\ get_current_user(keys, PyStr(k)) =
              IF Holder(k) = None THEN HTTPException(401, "Invalid or expired API key")
              ELSE [raised |-> FALSE, username |-> Holder(k).value]

\* this step is a call of generate_key or of revoke_key
RegistryStep == key_log' # key_log

\* C39 API-key registry: after generate_key(u) returned k, verify_key(k)
\* returns u in every later state until revoke_key(k) is called; verify_key
\* of a key never issued, or revoked, returns None; revoke_key of an unknown
\* key returns False and leaves the registry as it was, and of a known key
\* returns True; and issuing or revoking a key leaves every other key with
\* the user it had
C39_KeyRegistry ==
    [][/\ RegistryAnswers
       /\ RegistryAnswers'
       /\ (key_call' # key_call /\ key_call'.op = "verify_key") =>
             /\ key_call'.returned = Holder(key_call'.api_key)
             /\ keys' = keys
       /\ RegistryStep =>
             /\ \A k \in (DOMAIN keys \cup DOMAIN keys' \cup PresentedKeys)
                         \ {key_log'[Len(key_log')].api_key} :
                   verify_key(keys', k) = verify_key(keys, k)
             /\ key_call'.op = "generate_key" =>
                   /\ key_call'.returned = key_log'[Len(key_log')].api_key
                   /\ verify_key(keys', key_call'.returned) = PyStr(key_call'.user_id)
             /\ key_call'.op = "revoke_key" =>
                   /\ key_call'.returned = (key_call'.api_key \in DOMAIN keys)
                   /\ ~key_call'.returned => keys' = keys
                   /\ verify_key(keys', key_call'.api_key) = None]_vars

\* a key issued to demo is verified as demo's after another key was issued
\* and that other key revoked
C39_Witness ==
    /\ key_call.op = "verify_key"
    /\ key_call.returned = PyStr("demo")
    /\ key_call.api_key \notin DOMAIN INITIAL_KEYS
    /\ Len(key_log) = MaxKeyCalls
    /\ key_log[Len(key_log)].op = "revoke_key"
    /\ key_log[Len(key_log)].api_key # key_call.api_key
    /\ Holder(key_log[Len(key_log)].api_key) = None
    /\ \E i \in DOMAIN key_log :
          key_log[i].op = "generate_key" /\ key_log[i].api_key = key_log[Len(key_log)].api_key

====
